---- MODULE Spec2Model ----
(***************************************************************************)
(* Model of the Notion time tracker: the background service worker's timer *)
(* state machine (src/src/background/service-worker.ts), the remote work   *)
(* session store it talks to, chrome.storage.local, and the popup's proxy  *)
(* functions (src/src/popup/lib/stores.ts).                                *)
(*                                                                         *)
(* Time is counted in whole timer ticks (1 tick = 1000 ms).  Date.now() is *)
(* always positive, so the clock starts at Epoch and 0 is free to stand    *)
(* for null in numeric fields (the code tests them for truthiness).        *)
(***************************************************************************)
EXTENDS Integers, Sequences, FiniteSets, TLC

\* ------------------------------------------------------------------ bounds
MaxTime == 2
TimingEnd == 6
ScenarioEnd == 10
MaxSessions == 2
MaxLatency == 1
MaxInflight == 2
MaxIds == 2
MaxCalls == 2

Null == 0
Epoch == Null + 1
NullTask == "null"

Tasks == {"T1", "T2"}
PriorTotals == {0, 2}
Latency == 0..MaxLatency

Title(taskId) == IF taskId = "T1" THEN "Task one" ELSE "Task two"

\* ------------------------------------------------------------- data model
DEFAULT_TIMER_STATE ==
    [isRunning |-> FALSE, isPaused |-> FALSE, taskId |-> NullTask,
     taskTitle |-> "", currentSessionId |-> Null, sessionStartTime |-> Null,
     previousTotal |-> 0]

DEFAULT_SETTINGS ==
    [apiKey |-> "", tasksDataSourceId |-> "", workSessionsDataSourceId |-> ""]

STORAGE_KEYS == [SETTINGS |-> "notion_time_tracker_settings",
                 TIMER_STATE |-> "notion_time_tracker_timer_state",
                 CACHED_DATA |-> "notion_time_tracker_cached_data"]

TIMER_ALARM_NAME == "notion_time_tracker_tick"

\* the badge as left by chrome.action.setBadgeText / setBadgeBackgroundColor
BadgeCleared == [text |-> "", color |-> ""]

VARIABLES
    storage,        \* chrome.storage.local: a function from the keys present to their values
    sessions,       \* remote work-session pages; the page id is the index
    now,            \* the wall clock, Date.now()
    badge,          \* the action badge: [text, color]
    alarms,         \* the set of chrome.alarms names that exist
    currentView,    \* popup store currentView
    errorMessage,   \* popup store errorMessage ("" stands for null)
    settings,       \* popup store settings
    req,            \* record of the most recent proxy call (history)
    track,          \* the transitions committed since the last START (history)
    tasks,          \* popup task list: per task, its cached total and active session
    pendingTask,    \* popup task list: the task awaiting the switch confirmation
    showSwitchModal,\* popup task list: whether the switch confirmation is open
    inflight,       \* service worker: the handler invocations between two awaits
    serial,         \* what the requests give when run one by one as they arrive (history)
    timerStore,     \* popup store timerState
    fetched,        \* task list: a bulk read of session pages, its arguments and result
    isProcessing,   \* timer view: the flag of the mounted Timer component
    viewCalls,      \* timer view: its pause/resume/stop requests that have not settled
    mount,          \* popup: how far App's onMount has come, and what it has read
    saving          \* settings: the updateSettingsStore calls awaiting saveSettings

vars == <<storage, sessions, now, badge, alarms, currentView, errorMessage,
          settings, req, track, tasks, pendingTask, showSwitchModal, inflight,
          serial, timerStore, fetched, isProcessing, viewCalls, mount, saving>>

\* the task list's own state and the worker's in-flight handlers, which the
\* proxy calls issued from the timer view leave alone
listVars == <<tasks, pendingTask, showSwitchModal, fetched>>
workerVars == <<inflight, serial>>
\* the popup's calls between their awaits, which the atomic steps leave alone
asyncVars == <<isProcessing, viewCalls, mount, saving>>

\* --------------------------------------------------- the handler's world
\* Everything a background handler can read or change, threaded through the
\* handler's statements in program order, plus counters of what it did.
World ==
    [storage |-> storage, sessions |-> sessions, now |-> now,
     badge |-> badge, alarms |-> alarms,
     remote |-> 0, writes |-> 0, badgeSets |-> 0, alarmOps |-> 0,
     posts |-> 0, patches |-> 0, responses |-> 0]

Ret(w, v) == [w |-> w, ok |-> TRUE, value |-> v]
Throw(w, msg) == [w |-> w, ok |-> FALSE, error |-> msg]

\* ------------------------------------------------- service-worker storage
getSettings(w) ==
    IF STORAGE_KEYS.SETTINGS \in DOMAIN w.storage
    THEN [null |-> FALSE, value |-> w.storage[STORAGE_KEYS.SETTINGS]]
    ELSE [null |-> TRUE]

getTimerState(w) ==
    IF STORAGE_KEYS.TIMER_STATE \in DOMAIN w.storage
    THEN w.storage[STORAGE_KEYS.TIMER_STATE]
    ELSE DEFAULT_TIMER_STATE

\* the phase the two flags encode (the order updateBadge tests them in)
Phase(state) ==
    IF state.isRunning THEN "running" ELSE IF state.isPaused THEN "paused" ELSE "idle"

Put(f, k, v) == [x \in DOMAIN f \cup {k} |-> IF x = k THEN v ELSE f[x]]

saveTimerState(w, state) ==
    [w EXCEPT !.storage = Put(w.storage, STORAGE_KEYS.TIMER_STATE, state),
              !.writes = @ + 1]

\* mutant: the idle branch leaves the badge as it was
updateBadge_IdleKeepsText(w, state) ==
    [w EXCEPT !.badge = IF state.isRunning THEN [text |-> "play", color |-> "#2ecc71"]
                        ELSE IF state.isPaused THEN [text |-> "pause", color |-> "#f39c12"]
                        ELSE w.badge,
              !.badgeSets = @ + 1]

updateBadge(w, state) ==
    [w EXCEPT !.badge = IF state.isRunning THEN [text |-> "play", color |-> "#2ecc71"]
                        ELSE IF state.isPaused THEN [text |-> "pause", color |-> "#f39c12"]
                        ELSE [text |-> "", color |-> w.badge.color],
              !.badgeSets = @ + 1]

alarmsCreate(w, name) == [w EXCEPT !.alarms = @ \cup {name}, !.alarmOps = @ + 1]
alarmsClear(w, name) == [w EXCEPT !.alarms = @ \ {name}, !.alarmOps = @ + 1]

\* ---------------------------------------------------------- remote client
\* One HTTP request: it counts as a remote call and takes lat ticks.
notionRequest(w, lat) == [w EXCEPT !.remote = @ + 1, !.now = @ + lat]

\* the two requests that change the remote store: POST /pages and
\* PATCH /pages/{id}
posted(w, lat) == [notionRequest(w, lat) EXCEPT !.posts = @ + 1]
patched(w, lat) == [notionRequest(w, lat) EXCEPT !.patches = @ + 1]

CreateOutcomes == {"lookup_fail", "no_relation", "create_fail", "ok"}
CloseOutcomes == {"fail", "ok"}

\* createWorkSession: schema lookup (throws), session count (its failure is
\* swallowed and only changes the page title), then POST /pages with
\* start = new Date() taken before the POST is sent.
createPage(w, taskId, env) ==
    IF env.r = "create_fail" THEN Throw(posted(w, env.l2), "Notion API error")
    ELSE Ret([posted(w, env.l2) EXCEPT !.sessions =
                 Append(@, [task |-> taskId, start |-> w.now, end |-> Null])],
             Len(w.sessions) + 1)

\* mutant: the session's start is stamped before the schema lookup
createWorkSession_StampsFirst(w, s, taskId, env) ==
    IF env.r \in {"lookup_fail", "no_relation", "create_fail"}
    THEN createPage(notionRequest(notionRequest(w, env.l1), 0), taskId,
                    [env EXCEPT !.r = "create_fail"])
    ELSE createPage([notionRequest(notionRequest(w, env.l1), 0) EXCEPT !.now = w.now],
                    taskId, [env EXCEPT !.l2 = env.l1 + env.l2])

createWorkSession(w, s, taskId, env) ==
    IF env.r = "lookup_fail"
    THEN Throw(notionRequest(w, env.l1), "Notion API error")
    ELSE IF env.r = "no_relation"
    THEN Throw(notionRequest(w, env.l1), "Could not find task relation property")
    ELSE createPage(notionRequest(notionRequest(w, env.l1), 0), taskId, env)

\* mutant: the close ends every open session, not the one it is given
endWorkSession_EndsAll(w, s, sessionId, env) ==
    IF env.r = "fail" THEN Throw(patched(w, env.l), "Notion API error")
    ELSE Ret([patched(w, env.l) EXCEPT !.sessions =
                 [i \in DOMAIN @ |-> IF @[i].end = Null
                                     THEN [@[i] EXCEPT !.end = w.now] ELSE @[i]]],
             Null)

\* endWorkSession: PATCH the page with end = new Date() taken before the
\* PATCH is sent.
endWorkSession(w, s, sessionId, env) ==
    IF env.r = "fail" THEN Throw(patched(w, env.l), "Notion API error")
    ELSE Ret([patched(w, env.l) EXCEPT !.sessions =
                 [i \in DOMAIN @ |-> IF i = sessionId
                                     THEN [@[i] EXCEPT !.end = w.now] ELSE @[i]]],
             Null)

\* ------------------------------------------------------------- handlers
\* await saveTimerState(state); updateBadge(state)
saved(w, state) == updateBadge(saveTimerState(w, state), state)

\* mutant: START begins every task at a zero total
StartState_ZeroTotal(payload, sessionId, t) ==
    [isRunning |-> TRUE, isPaused |-> FALSE,
     taskId |-> payload.taskId, taskTitle |-> payload.taskTitle,
     currentSessionId |-> sessionId, sessionStartTime |-> t,
     previousTotal |-> 0]

\* the state START persists, t being the Date.now() read after the create
StartState(payload, sessionId, t) ==
    [isRunning |-> TRUE, isPaused |-> FALSE,
     taskId |-> payload.taskId, taskTitle |-> payload.taskTitle,
     currentSessionId |-> sessionId, sessionStartTime |-> t,
     previousTotal |-> payload.previousTotal]

startCommit(w, state) == Ret(alarmsCreate(saved(w, state), TIMER_ALARM_NAME), state)

startCreated(c, payload) ==
    IF ~c.ok THEN c ELSE startCommit(c.w, StartState(payload, c.value, c.w.now))

startConfigured(w, cfg, payload, env) ==
    IF cfg.null THEN Throw(w, "Settings not configured")
    ELSE startCreated(createWorkSession(w, cfg.value, payload.taskId, env), payload)

handleStartTimer(w, payload, env) == startConfigured(w, getSettings(w), payload, env)

\* mutant: PAUSE forgets to clear currentSessionId
PauseNewState_KeepsSession(state, t) ==
    [state EXCEPT !.isRunning = FALSE, !.isPaused = TRUE,
                  !.sessionStartTime = Null,
                  !.previousTotal = @ + (IF state.sessionStartTime # Null
                                         THEN t - state.sessionStartTime ELSE 0)]

\* mutant: PAUSE stores the interval just closed instead of adding it
PauseNewState_DropsTotal(state, t) ==
    [state EXCEPT !.isRunning = FALSE, !.isPaused = TRUE,
                  !.currentSessionId = Null, !.sessionStartTime = Null,
                  !.previousTotal = IF state.sessionStartTime # Null
                                    THEN t - state.sessionStartTime ELSE 0]

\* the state PAUSE persists, t being the Date.now() read after the close
PauseNewState(state, t) ==
    [state EXCEPT !.isRunning = FALSE, !.isPaused = TRUE,
                  !.currentSessionId = Null, !.sessionStartTime = Null,
                  !.previousTotal = @ + (IF state.sessionStartTime # Null
                                         THEN t - state.sessionStartTime ELSE 0)]

pauseCommit(w, newState) ==
    Ret(alarmsClear(saved(w, newState), TIMER_ALARM_NAME), newState)

pauseEnded(e, state) ==
    IF ~e.ok THEN e ELSE pauseCommit(e.w, PauseNewState(state, e.w.now))

pauseRead(w, cfg, state, env) ==
    IF cfg.null \/ ~state.isRunning \/ state.currentSessionId = Null
    THEN Ret(w, state)
    ELSE pauseEnded(endWorkSession(w, cfg.value, state.currentSessionId, env), state)

handlePauseTimer(w, env) == pauseRead(w, getSettings(w), getTimerState(w), env)

\* mutant: RESUME does not stamp the new interval's start
ResumeNewState_NoStartTime(state, sessionId, t) ==
    [state EXCEPT !.isRunning = TRUE, !.isPaused = FALSE,
                  !.currentSessionId = sessionId]

\* mutant: RESUME stamps the interval with the time the request arrived
ResumeNewState_StaleStart(state, sessionId, t) ==
    [state EXCEPT !.isRunning = TRUE, !.isPaused = FALSE,
                  !.currentSessionId = sessionId, !.sessionStartTime = now]

\* mutant: RESUME begins the new interval with a zero total
ResumeNewState_ResetsTotal(state, sessionId, t) ==
    [state EXCEPT !.isRunning = TRUE, !.isPaused = FALSE,
                  !.currentSessionId = sessionId, !.sessionStartTime = t,
                  !.previousTotal = 0]

\* mutant: RESUME sets isRunning and leaves isPaused as it was
ResumeNewState_KeepsPaused(state, sessionId, t) ==
    [state EXCEPT !.isRunning = TRUE,
                  !.currentSessionId = sessionId, !.sessionStartTime = t]

\* the state RESUME persists, t being the Date.now() read after the create
ResumeNewState(state, sessionId, t) ==
    [state EXCEPT !.isRunning = TRUE, !.isPaused = FALSE,
                  !.currentSessionId = sessionId, !.sessionStartTime = t]

\* mutant: RESUME only checks that a task is stored
ResumeApplies_AnyPhase(cfg, state) == ~(cfg.null \/ state.taskId = NullTask)

\* the complement of RESUME's early return
ResumeApplies(cfg, state) ==
    ~(cfg.null \/ ~state.isPaused \/ state.taskId = NullTask)

resumeCommit(w, newState) ==
    Ret(alarmsCreate(saved(w, newState), TIMER_ALARM_NAME), newState)

resumeCreated(c, state) ==
    IF ~c.ok THEN c ELSE resumeCommit(c.w, ResumeNewState(state, c.value, c.w.now))

resumeRead(w, cfg, state, env) ==
    IF ~ResumeApplies(cfg, state) THEN Ret(w, state)
    ELSE resumeCreated(createWorkSession(w, cfg.value, state.taskId, env), state)

handleResumeTimer(w, env) == resumeRead(w, getSettings(w), getTimerState(w), env)

\* mutant: STOP closes whatever currentSessionId holds, in any phase
StopCloses_Always(state) == TRUE

\* whether STOP has an open session to end
StopCloses(state) == state.isRunning /\ state.currentSessionId # Null

\* mutant: STOP carries the total, with the open interval, into the idle state
StopState_KeepsTotal(state, t) ==
    [DEFAULT_TIMER_STATE EXCEPT !.previousTotal =
        state.previousTotal + (IF state.sessionStartTime # Null
                               THEN t - state.sessionStartTime ELSE 0)]

\* the state STOP persists
StopState(state, t) == DEFAULT_TIMER_STATE

stopCommit(w, newState) ==
    Ret(alarmsClear(saved(w, newState), TIMER_ALARM_NAME), newState)

\* mutant: a failed close still leaves the reset state behind
stopEnded_ResetAnyway(e, state) ==
    IF ~e.ok THEN Throw(saveTimerState(e.w, DEFAULT_TIMER_STATE), e.error)
    ELSE stopCommit(e.w, StopState(state, e.w.now))

stopEnded(e, state) ==
    IF ~e.ok THEN e ELSE stopCommit(e.w, StopState(state, e.w.now))

stopRead(w, cfg, state, env) ==
    IF cfg.null THEN Ret(saved(w, DEFAULT_TIMER_STATE), DEFAULT_TIMER_STATE)
    ELSE stopEnded(IF StopCloses(state)
                   THEN endWorkSession(w, cfg.value, state.currentSessionId, env)
                   ELSE Ret(w, Null),
                   state)

handleStopTimer(w, env) == stopRead(w, getSettings(w), getTimerState(w), env)

\* ------------------------------------------------------ message listener
NoCreate == [r |-> "ok", l1 |-> 0, l2 |-> 0]
NoClose == [r |-> "ok", l |-> 0]

\* what handleMessage hands to sendResponse: the handler's value, or the
\* catch block's error descriptor
responded(h) ==
    [w |-> [h.w EXCEPT !.responses = @ + 1],
     response |-> IF h.ok THEN h.value ELSE [error |-> h.error]]

\* mutant: GET_STATE clears the stored state it reports
handleGetState_Resets(w) ==
    Ret(saveTimerState(w, DEFAULT_TIMER_STATE), [timerState |-> getTimerState(w)])

handleGetState(w) == Ret(w, [timerState |-> getTimerState(w)])

\* mutant: the switch has no default and an unknown kind runs the last case
handleMessage_NoDefault(w, message, cenv, xenv) ==
    responded(CASE message.type = "START_TIMER" -> handleStartTimer(w, message.payload, cenv)
                [] message.type = "PAUSE_TIMER" -> handlePauseTimer(w, xenv)
                [] message.type = "RESUME_TIMER" -> handleResumeTimer(w, cenv)
                [] message.type = "GET_STATE" -> handleGetState(w)
                [] OTHER -> handleStopTimer(w, xenv))

\* chrome.runtime.onMessage listener: runs the handler in try/catch
handleMessage(w, message, cenv, xenv) ==
    responded(CASE message.type = "START_TIMER" -> handleStartTimer(w, message.payload, cenv)
                [] message.type = "PAUSE_TIMER" -> handlePauseTimer(w, xenv)
                [] message.type = "RESUME_TIMER" -> handleResumeTimer(w, cenv)
                [] message.type = "STOP_TIMER" -> handleStopTimer(w, xenv)
                [] message.type = "GET_STATE" -> handleGetState(w)
                [] OTHER -> Ret(w, [error |-> "Unknown message type"]))

\* ----------------------------------------------------------- popup proxy
Transport == {"ok", "lastError"}
Undefined == [undefined |-> TRUE]

\* sendMessage: rejects when chrome.runtime.lastError is set (the message
\* reached no listener), resolves with whatever the listener responded.
resolved(m) == [w |-> m.w, settled |-> "resolved", response |-> m.response]

\* mutant: a request answered with an error descriptor is sent once more
sendMessage_Retries(w, message, cenv, xenv, transport) ==
    IF transport = "lastError"
    THEN [w |-> w, settled |-> "rejected", response |-> Undefined]
    ELSE IF "error" \in DOMAIN handleMessage(w, message, cenv, xenv).response
    THEN resolved(handleMessage(handleMessage(w, message, cenv, xenv).w,
                                message, cenv, xenv))
    ELSE resolved(handleMessage(w, message, cenv, xenv))

sendMessage(w, message, cenv, xenv, transport) ==
    IF transport = "lastError"
    THEN [w |-> w, settled |-> "rejected", response |-> Undefined]
    ELSE resolved(handleMessage(w, message, cenv, xenv))

\* setupStorageListener: when the timer-state key changes to a value, the
\* popup's timerState store is set to it
setupStorageListener(old, new, store) ==
    IF /\ STORAGE_KEYS.TIMER_STATE \in DOMAIN new
       /\ \/ STORAGE_KEYS.TIMER_STATE \notin DOMAIN old
          \/ old[STORAGE_KEYS.TIMER_STATE] # new[STORAGE_KEYS.TIMER_STATE]
    THEN new[STORAGE_KEYS.TIMER_STATE]
    ELSE store

\* what a proxy call leaves behind: the world's effects and the history record
Commit(type, out, view, failure) ==
    /\ out.w.now <= ScenarioEnd
    /\ Len(out.w.sessions) <= MaxSessions
    /\ storage' = out.w.storage
    /\ timerStore' = setupStorageListener(storage, out.w.storage, timerStore)
    /\ sessions' = out.w.sessions
    /\ now' = out.w.now
    /\ badge' = out.w.badge
    /\ alarms' = out.w.alarms
    /\ currentView' = IF out.settled = "resolved" THEN view ELSE currentView
    /\ errorMessage' = IF out.settled = "rejected" THEN failure ELSE errorMessage
    /\ req' = [type |-> type, settled |-> out.settled, response |-> out.response,
               pre |-> getTimerState(World),
               remote |-> out.w.remote, writes |-> out.w.writes,
               badgeSets |-> out.w.badgeSets, alarmOps |-> out.w.alarmOps,
               posts |-> out.w.posts, patches |-> out.w.patches,
               responses |-> out.w.responses,
               at |-> IF out.w.writes > 0 THEN out.w.now ELSE Null]
    /\ UNCHANGED <<settings, listVars, workerVars>>

startTimer(taskId, taskTitle, previousTotal, cenv, transport) ==
    Commit("START_TIMER",
           sendMessage(World,
                       [type |-> "START_TIMER",
                        payload |-> [taskId |-> taskId, taskTitle |-> taskTitle,
                                     previousTotal |-> previousTotal]],
                       cenv, NoClose, transport),
           "timer", "Failed to start timer")

pauseTimer(xenv, transport) ==
    Commit("PAUSE_TIMER",
           sendMessage(World, [type |-> "PAUSE_TIMER"], NoCreate, xenv, transport),
           currentView, "Failed to pause timer")

resumeTimer(cenv, transport) ==
    Commit("RESUME_TIMER",
           sendMessage(World, [type |-> "RESUME_TIMER"], cenv, NoClose, transport),
           currentView, "Failed to resume timer")

stopTimer(xenv, transport) ==
    Commit("STOP_TIMER",
           sendMessage(World, [type |-> "STOP_TIMER"], NoCreate, xenv, transport),
           "tasks", "Failed to stop timer")

\* getTimerStateFromWorker: the response's timerState goes to the caller,
\* the default when the call rejects; no store is touched
getTimerStateFromWorker(transport) ==
    Commit("GET_STATE",
           sendMessage(World, [type |-> "GET_STATE"], NoCreate, NoClose, transport),
           currentView, errorMessage)

\* ------------------------------------------------------------- settings
\* The partial updates the settings view saves: the completed onboarding
\* and a cleared credential.
SettingsUpdates ==
    { [apiKey |-> "secret", tasksDataSourceId |-> "tasks-db",
       workSessionsDataSourceId |-> "sessions-db"],
      [apiKey |-> ""] }

Merge(current, updates) ==
    [k \in DOMAIN current |-> IF k \in DOMAIN updates THEN updates[k] ELSE current[k]]

updateSettingsStore(updates) ==
    /\ settings' = Merge(settings, updates)
    /\ storage' = Put(storage, STORAGE_KEYS.SETTINGS, settings')
    /\ UNCHANGED <<sessions, now, badge, alarms, currentView, errorMessage, req, track,
                   listVars, workerVars, timerStore, asyncVars>>

\* ------------------------------------------------------- specification
\* Spec: the proxy calls in any order over an instantaneous network, every
\* remote outcome, transport failures and settings changes.
\* history of the tracked task: the transitions that were committed since
\* the last START, with the Date.now() each one read (STOP reads none: the
\* clock when it wrote), and the prior total START was given
NoTrack == [prior |-> 0, ops |-> <<>>, marks |-> <<>>]

Tracked(tr, r) ==
    IF r.writes = 0 THEN tr
    ELSE IF r.type = "START_TIMER"
         THEN [prior |-> r.response.previousTotal, ops |-> <<"start">>,
               marks |-> <<r.at>>]
    ELSE IF r.type = "STOP_TIMER" /\ ~r.pre.isRunning /\ ~r.pre.isPaused THEN tr
    ELSE [tr EXCEPT !.ops = Append(@, CASE r.type = "PAUSE_TIMER" -> "pause"
                                        [] r.type = "RESUME_TIMER" -> "resume"
                                        [] OTHER -> "stop"),
                    !.marks = Append(@, r.at)]

NoRequest ==
    [type |-> "NONE", settled |-> "resolved", response |-> Undefined,
     pre |-> DEFAULT_TIMER_STATE,
     remote |-> 0, writes |-> 0, badgeSets |-> 0, alarmOps |-> 0,
     posts |-> 0, patches |-> 0, responses |-> 0, at |-> Null]

\* the task list before the first load: no task has a total or an active session
NoActive == [id |-> Null, startTime |-> Null]
NoTasks == [t \in Tasks |-> [totalTrackedTime |-> 0, activeSession |-> NoActive]]

\* no bulk read has been made
NoFetch == [ids |-> <<>>, replies |-> <<>>, result |-> <<>>, read |-> FALSE]

\* App's onMount is over: initializeStores has filled the stores and the
\* storage listener is registered
Mounted == [pc |-> "listening", loaded |-> DEFAULT_TIMER_STATE]

\* no updateSettingsStore call is awaiting its save, none was made
NoSaving == [pending |-> <<>>, asked |-> {}]

\* nothing has arrived yet: the one-by-one run is where the worker starts
NoSerial == [timer |-> DEFAULT_TIMER_STATE, sessions |-> <<>>, clean |-> TRUE]

Init ==
    /\ storage = <<>>
    /\ sessions = <<>>
    /\ now = Epoch
    /\ badge = BadgeCleared
    /\ alarms = {}
    /\ currentView = "tasks"
    /\ errorMessage = ""
    /\ settings = DEFAULT_SETTINGS
    /\ req = NoRequest
    /\ track = NoTrack
    /\ tasks = NoTasks
    /\ pendingTask = NullTask
    /\ showSwitchModal = FALSE
    /\ inflight = <<>>
    /\ serial = NoSerial
    /\ timerStore = DEFAULT_TIMER_STATE
    /\ fetched = NoFetch
    /\ isProcessing = FALSE
    /\ viewCalls = <<>>
    /\ mount = Mounted
    /\ saving = NoSaving

InstantCreate == [r : CreateOutcomes, l1 : {0}, l2 : {0}]
InstantClose == [r : CloseOutcomes, l : {0}]

StartStep ==
    /\ \E t \in Tasks, p \in PriorTotals :
           \/ \E cenv \in InstantCreate : startTimer(t, Title(t), p, cenv, "ok")
           \/ startTimer(t, Title(t), p, NoCreate, "lastError")
    /\ UNCHANGED <<track, asyncVars>>

PauseStep ==
    /\ \/ \E xenv \in InstantClose : pauseTimer(xenv, "ok")
       \/ pauseTimer(NoClose, "lastError")
    /\ UNCHANGED <<track, asyncVars>>

ResumeStep ==
    /\ \/ \E cenv \in InstantCreate : resumeTimer(cenv, "ok")
       \/ resumeTimer(NoCreate, "lastError")
    /\ UNCHANGED <<track, asyncVars>>

StopStep ==
    /\ \/ \E xenv \in InstantClose : stopTimer(xenv, "ok")
       \/ stopTimer(NoClose, "lastError")
    /\ UNCHANGED <<track, asyncVars>>

SettingsStep == \E u \in SettingsUpdates : updateSettingsStore(u)

ClockTick(end) ==
    /\ now < end
    /\ now' = now + 1
    /\ UNCHANGED <<storage, timerStore, sessions, badge, alarms, currentView, errorMessage,
                   settings, req, track, listVars, workerVars, asyncVars>>

Tick == ClockTick(MaxTime)

Next ==
    \/ StartStep
    \/ PauseStep
    \/ ResumeStep
    \/ StopStep
    \/ SettingsStep
    \/ Tick

Spec == Init /\ [][Next]_vars

\* The timing specifications: a configured installation whose remote calls
\* all succeed, where a task is started only while nothing is tracked.
Configured ==
    [apiKey |-> "secret", tasksDataSourceId |-> "tasks-db",
     workSessionsDataSourceId |-> "sessions-db"]

TimingStart ==
    /\ storage = Put(<<>>, STORAGE_KEYS.SETTINGS, Configured)
    /\ sessions = <<>>
    /\ now = Epoch
    /\ badge = BadgeCleared
    /\ alarms = {}
    /\ currentView = "tasks"
    /\ errorMessage = ""
    /\ settings = Configured
    /\ req = NoRequest
    /\ track = NoTrack
    /\ tasks = NoTasks
    /\ pendingTask = NullTask
    /\ showSwitchModal = FALSE
    /\ inflight = <<>>
    /\ serial = NoSerial
    /\ timerStore = DEFAULT_TIMER_STATE
    /\ isProcessing = FALSE
    /\ viewCalls = <<>>
    /\ mount = Mounted
    /\ saving = NoSaving

TimingInit == TimingStart /\ fetched = NoFetch

RunStart(priors, lats, end) ==
    /\ Phase(getTimerState(World)) = "idle"
    /\ \E p \in priors, cenv \in [r : {"ok"}, l1 : lats, l2 : lats] :
           startTimer("T1", Title("T1"), p, cenv, "ok")
    /\ now' <= end
    /\ track' = Tracked(track, req')
    /\ UNCHANGED asyncVars

RunPause(lats, end) ==
    /\ \E xenv \in [r : {"ok"}, l : lats] : pauseTimer(xenv, "ok")
    /\ now' <= end
    /\ track' = Tracked(track, req')
    /\ UNCHANGED asyncVars

RunResume(lats, end) ==
    /\ \E cenv \in [r : {"ok"}, l1 : lats, l2 : lats] : resumeTimer(cenv, "ok")
    /\ now' <= end
    /\ track' = Tracked(track, req')
    /\ UNCHANGED asyncVars

RunStop(lats, end) ==
    /\ \E xenv \in [r : {"ok"}, l : lats] : stopTimer(xenv, "ok")
    /\ now' <= end
    /\ track' = Tracked(track, req')
    /\ UNCHANGED asyncVars

\* TimingSpec: any schedule over a short clock, with network latency.
TimingNext ==
    \/ RunStart(PriorTotals, Latency, TimingEnd)
    \/ RunPause(Latency, TimingEnd)
    \/ RunResume(Latency, TimingEnd)
    \/ RunStop(Latency, TimingEnd)
    \/ ClockTick(TimingEnd)

TimingSpec == TimingInit /\ [][TimingNext]_vars

\* ScenarioSpec: any schedule over a clock long enough for the scenario
\* start / pause at 5 s / resume at 6 s / stop at 9 s, network instantaneous.
ScenarioNext ==
    \/ RunStart(PriorTotals, {0}, ScenarioEnd)
    \/ RunPause({0}, ScenarioEnd)
    \/ RunResume({0}, ScenarioEnd)
    \/ RunStop({0}, ScenarioEnd)
    \/ ClockTick(ScenarioEnd)

ScenarioSpec == TimingInit /\ [][ScenarioNext]_vars

\* ------------------------------------------------ popup storage and stores
DEFAULT_CACHED_DATA == [tasks |-> NoTasks, lastFetched |-> Null]

\* { ...default, ...value }
Spread(default, value) ==
    [k \in DOMAIN default \cup DOMAIN value |->
        IF k \in DOMAIN value THEN value[k] ELSE default[k]]

\* the popup's reads of chrome.storage.local: a missing key gives the
\* default, a stored value is spread over the default
popupGetSettings(w) ==
    IF STORAGE_KEYS.SETTINGS \in DOMAIN w.storage
    THEN Spread(DEFAULT_SETTINGS, w.storage[STORAGE_KEYS.SETTINGS])
    ELSE DEFAULT_SETTINGS

popupGetTimerState(w) ==
    IF STORAGE_KEYS.TIMER_STATE \in DOMAIN w.storage
    THEN Spread(DEFAULT_TIMER_STATE, w.storage[STORAGE_KEYS.TIMER_STATE])
    ELSE DEFAULT_TIMER_STATE

getCachedData(w) ==
    IF STORAGE_KEYS.CACHED_DATA \in DOMAIN w.storage
    THEN Spread(DEFAULT_CACHED_DATA, w.storage[STORAGE_KEYS.CACHED_DATA])
    ELSE DEFAULT_CACHED_DATA

getCachedTasks(w) == getCachedData(w).tasks

\* mutant: the cache is written under the timer-state key
saveCachedData_TimerKey(w, data) ==
    [w EXCEPT !.storage = Put(@, STORAGE_KEYS.TIMER_STATE, data)]

saveCachedData(w, data) ==
    [w EXCEPT !.storage = Put(@, STORAGE_KEYS.CACHED_DATA, data)]

saveCachedTasks(w, list) == saveCachedData(w, [tasks |-> list, lastFetched |-> w.now])

\* mutant: only a running timer brings the timer view back
ViewOnOpen_RunningOnly(savedTimerState) ==
    IF savedTimerState.isRunning THEN "timer" ELSE "tasks"

\* the view after initializeStores: the timer view when a task is tracked,
\* else the store's initial 'tasks'
ViewOnOpen(savedTimerState) ==
    IF /\ savedTimerState.taskId # NullTask
       /\ savedTimerState.isRunning \/ savedTimerState.isPaused
    THEN "timer" ELSE "tasks"

\* the popup is opened (again): its stores and the task list's state are
\* created afresh and initializeStores fills them from storage; the task
\* list shows the cached tasks
initializeStores ==
    /\ settings' = popupGetSettings(World)
    /\ timerStore' = popupGetTimerState(World)
    /\ tasks' = getCachedTasks(World)
    /\ currentView' = ViewOnOpen(popupGetTimerState(World))
    /\ errorMessage' = ""
    /\ pendingTask' = NullTask
    /\ showSwitchModal' = FALSE
    /\ UNCHANGED <<storage, sessions, now, badge, alarms, req, track, fetched,
                   workerVars, asyncVars>>

\* mutant: while running only the current interval is shown
updateDisplay_ElapsedOnly(props, t) ==
    IF props.isRunning /\ props.sessionStartTime # Null
    THEN t - props.sessionStartTime
    ELSE props.previousTotal

\* TimerDisplay's updateDisplay at time t, with the props the timer view
\* passes from the timerState store: the total that formatTime then renders
updateDisplay(props, t) ==
    props.previousTotal
        + (IF props.isRunning /\ props.sessionStartTime # Null
           THEN t - props.sessionStartTime ELSE 0)

\* ------------------------------------------------- host events
\* What the browser may have done to the extension's badge and alarms when
\* it starts again or installs a new version: kept them or dropped them.
Restarts(w) ==
    { [w EXCEPT !.badge = b, !.alarms = a] :
          b \in {w.badge, BadgeCleared}, a \in {w.alarms, {}} }

\* the listeners change the badge and the alarms and nothing else
Listened(w) ==
    /\ badge' = w.badge
    /\ alarms' = w.alarms
    /\ UNCHANGED <<storage, timerStore, sessions, now, currentView, errorMessage, settings,
                   req, track, listVars, workerVars, asyncVars>>

alarmFired(w, state) == IF state.isRunning THEN updateBadge(w, state) ELSE w

\* chrome.alarms.onAlarm listener, for the tick alarm
onAlarm ==
    /\ TIMER_ALARM_NAME \in alarms
    /\ Listened(alarmFired(World, getTimerState(World)))

startedUp(w, state) ==
    IF state.isRunning THEN alarmsCreate(updateBadge(w, state), TIMER_ALARM_NAME)
    ELSE updateBadge(w, state)

\* chrome.runtime.onStartup listener
onStartup == \E w \in Restarts(World) : Listened(startedUp(w, getTimerState(w)))

\* chrome.runtime.onInstalled listener
onInstalled == \E w \in Restarts(World) : Listened(updateBadge(w, getTimerState(w)))

\* message kinds the listener's switch has no case for: the two declared in
\* MessageType without a handler, and one that is not declared at all
UnknownKinds == {"STATE_UPDATE", "SETTINGS_UPDATE", "PING"}

\* a caller hands such a message to sendMessage; no store is touched on
\* either outcome
UnknownStep ==
    /\ \E kind \in UnknownKinds, transport \in Transport :
           Commit(kind, sendMessage(World, [type |-> kind], NoCreate, NoClose, transport),
                  currentView, errorMessage)
    /\ UNCHANGED <<track, asyncVars>>

\* a caller asks the worker for the state
GetStateStep ==
    /\ \E transport \in Transport : getTimerStateFromWorker(transport)
    /\ UNCHANGED <<track, asyncVars>>

\* HostSpec: the proxy calls and settings changes of Spec together with the
\* host's events, the popup being closed and opened, GET_STATE and unknown
\* messages, the clock standing still.
HostNext ==
    \/ StartStep
    \/ PauseStep
    \/ ResumeStep
    \/ StopStep
    \/ SettingsStep
    \/ UnknownStep
    \/ GetStateStep
    \/ initializeStores
    \/ onAlarm
    \/ onStartup
    \/ onInstalled

HostSpec == Init /\ [][HostNext]_vars

\* ------------------------------------------------------- popup task list
\* the persisted TimerState, as the worker reads it
timerState == getTimerState(World)

\* task.sessionsRelation as queryTasks reads it: the ids of the pages related
\* to the task
sessionsRelation(ss, t) ==
    SelectSeq([i \in 1..Len(ss) |-> i], LAMBDA i : ss[i].task = t)

\* A date property as GET /pages/{id} returns it: absent from the page
\* (present = FALSE), or present with a date that may be null (Null).
NoProperty == [present |-> FALSE, date |-> Null]
DateProperty(d) == [present |-> TRUE, date |-> d]

\* the reply to GET /pages/{id}: the request fails, or the page comes back
NoPage == [ok |-> FALSE, start |-> NoProperty, end |-> NoProperty]
Page(start, end) == [ok |-> TRUE, start |-> start, end |-> end]

\* prop?.date?.start || null, and !!prop?.date?.start
dateOf(prop) == IF prop.present /\ prop.date # Null THEN prop.date ELSE Null
hasDate(prop) == prop.present /\ prop.date # Null

\* mutant: a page with a start counts as active whatever its end
fetchPage_ActiveWithEnd(id, reply) ==
    IF ~reply.ok THEN [null |-> TRUE]
    ELSE [null |-> FALSE, id |-> id,
          startDate |-> dateOf(reply.start), endDate |-> dateOf(reply.end),
          isActive |-> hasDate(reply.start)]

\* the body of getWorkSessions' map: the entry of one id, null when the fetch
\* throws
fetchPage(id, reply) ==
    IF ~reply.ok THEN [null |-> TRUE]
    ELSE [null |-> FALSE, id |-> id,
          startDate |-> dateOf(reply.start), endDate |-> dateOf(reply.end),
          isActive |-> hasDate(reply.start) /\ ~hasDate(reply.end)]

getWorkSessions(ids, replies) ==
    IF Len(ids) = 0 THEN <<>>
    ELSE SelectSeq([n \in 1..Len(ids) |-> fetchPage(ids[n], replies[ids[n]])],
                   LAMBDA e : ~e.null)

\* calculateTotalTime over the entries, in order: the durations of the ended
\* ones, and the last active one
RECURSIVE completedTime(_, _)
completedTime(es, n) ==
    IF n = 0 THEN 0
    ELSE completedTime(es, n - 1)
         + (IF es[n].startDate = Null \/ es[n].isActive \/ es[n].endDate = Null
            THEN 0 ELSE es[n].endDate - es[n].startDate)

RECURSIVE activeOf(_, _)
activeOf(es, n) ==
    IF n = 0 THEN NoActive
    ELSE IF es[n].startDate # Null /\ es[n].isActive
    THEN [id |-> es[n].id, startTime |-> es[n].startDate]
    ELSE activeOf(es, n - 1)

calculateTotalTime(es) ==
    [totalTrackedTime |-> completedTime(es, Len(es)),
     activeSession |-> activeOf(es, Len(es))]

\* what the remote store replies to the fetches of loadTasks: the pages in
\* got come back, the others fail
Fetch(ss, got) ==
    [i \in DOMAIN ss |->
        IF i \in got THEN Page(DateProperty(ss[i].start), DateProperty(ss[i].end))
        ELSE NoPage]

\* loadTasks, when the query succeeds: each task gets the total and the
\* active session of the pages getWorkSessions returned, and the list is
\* cached
loadTasks ==
    /\ settings.apiKey # "" /\ settings.tasksDataSourceId # ""
    /\ \E got \in SUBSET DOMAIN sessions :
           tasks' = [t \in Tasks |->
                        calculateTotalTime(
                            getWorkSessions(sessionsRelation(sessions, t),
                                            Fetch(sessions, got)))]
    /\ storage' = saveCachedTasks(World, tasks').storage
    /\ timerStore' = setupStorageListener(storage, storage', timerStore)
    /\ UNCHANGED <<sessions, now, badge, alarms, currentView, errorMessage,
                   settings, req, track, pendingTask, showSwitchModal, fetched,
                   workerVars, asyncVars>>

\* endActiveSession: the popup's own PATCH of a page's end date
endActiveSession(w, sessionId, env) ==
    IF env.r = "fail" THEN Throw(patched(w, env.l), "Notion API error")
    ELSE Ret([patched(w, env.l) EXCEPT !.sessions =
                 [i \in DOMAIN @ |-> IF i = sessionId
                                     THEN [@[i] EXCEPT !.end = w.now] ELSE @[i]]],
             Null)

\* the START that startTrackingTask sends: the world it is sent in, and
\* what sendMessage settles with
startSent(w, task, total, cenv, transport) ==
    [sent |-> w, task |-> task, total |-> total,
     out |-> sendMessage(w, [type |-> "START_TIMER",
                             payload |-> [taskId |-> task, taskTitle |-> Title(task),
                                          previousTotal |-> total]],
                         cenv, NoClose, transport)]

activeEnded(e, task, cached, cenv, transport) ==
    IF e.ok
    THEN startSent(e.w, task,
                   cached.totalTrackedTime + (e.w.now - cached.activeSession.startTime),
                   cenv, transport)
    ELSE startSent(e.w, task, cached.totalTrackedTime, cenv, transport)

startTrackingTask(w, task, cached, aenv, cenv, transport) ==
    IF cached.activeSession.id # Null
    THEN activeEnded(endActiveSession(w, cached.activeSession.id, aenv),
                     task, cached, cenv, transport)
    ELSE startSent(w, task, cached.totalTrackedTime, cenv, transport)

\* what a START sent from the task list leaves behind; s.sent is the world
\* START was sent in, first the world the handler began in; the history
\* record keeps the task's cached data and the prior total that was sent
Started(first, s, via, view, failure) ==
    /\ s.out.w.now <= ScenarioEnd
    /\ Len(s.out.w.sessions) <= MaxSessions
    /\ storage' = s.out.w.storage
    /\ timerStore' = setupStorageListener(storage, s.out.w.storage, timerStore)
    /\ sessions' = s.out.w.sessions
    /\ now' = s.out.w.now
    /\ badge' = s.out.w.badge
    /\ alarms' = s.out.w.alarms
    /\ currentView' = IF s.out.settled = "resolved" THEN "timer" ELSE view
    /\ errorMessage' = IF s.out.settled = "rejected" THEN "Failed to start timer"
                       ELSE failure
    /\ req' = [type |-> "START_TIMER", settled |-> s.out.settled,
               response |-> s.out.response,
               pre |-> getTimerState(s.sent),
               remote |-> s.out.w.remote, writes |-> s.out.w.writes,
               badgeSets |-> s.out.w.badgeSets, alarmOps |-> s.out.w.alarmOps,
               posts |-> s.out.w.posts, patches |-> s.out.w.patches,
               responses |-> s.out.w.responses,
               at |-> IF s.out.w.writes > 0 THEN s.out.w.now ELSE Null,
               via |-> via,
               first |-> getTimerState(first),
               open |-> {i \in DOMAIN s.sent.sessions : s.sent.sessions[i].end = Null},
               cached |-> tasks[s.task], total |-> s.total, sentAt |-> s.sent.now]
    /\ UNCHANGED <<settings, track, tasks, fetched, workerVars, asyncVars>>

\* what the resume branch of handlePlayTask leaves behind: resumeTimer()
\* never throws, and the timer view is shown whatever it settled with
Resumed(out) ==
    /\ out.w.now <= ScenarioEnd
    /\ Len(out.w.sessions) <= MaxSessions
    /\ storage' = out.w.storage
    /\ timerStore' = setupStorageListener(storage, out.w.storage, timerStore)
    /\ sessions' = out.w.sessions
    /\ now' = out.w.now
    /\ badge' = out.w.badge
    /\ alarms' = out.w.alarms
    /\ currentView' = "timer"
    /\ errorMessage' = IF out.settled = "rejected" THEN "Failed to resume timer"
                       ELSE errorMessage
    /\ req' = [type |-> "RESUME_TIMER", settled |-> out.settled,
               response |-> out.response, pre |-> getTimerState(World),
               remote |-> out.w.remote, writes |-> out.w.writes,
               badgeSets |-> out.w.badgeSets, alarmOps |-> out.w.alarmOps,
               posts |-> out.w.posts, patches |-> out.w.patches,
               responses |-> out.w.responses,
               at |-> IF out.w.writes > 0 THEN out.w.now ELSE Null]
    /\ UNCHANGED <<settings, track, listVars, workerVars, asyncVars>>

\* handlePlayTask: resume the paused task, ask before switching away from
\* another task, or start tracking
handlePlayTask(task, aenv, cenv, transport) ==
    IF timerStore.taskId = task /\ timerStore.isPaused
    THEN /\ Resumed(sendMessage(World, [type |-> "RESUME_TIMER"], cenv, NoClose, transport))
    ELSE IF timerStore.taskId # NullTask /\ timerStore.taskId # task
    THEN /\ pendingTask' = task
         /\ showSwitchModal' = TRUE
         /\ UNCHANGED <<storage, timerStore, sessions, now, badge, alarms, currentView,
                        errorMessage, settings, req, track, tasks, fetched, workerVars, asyncVars>>
    ELSE /\ Started(World,
                    startTrackingTask(World, task, tasks[task], aenv, cenv, transport),
                    "play", currentView, errorMessage)
         /\ UNCHANGED <<pendingTask, showSwitchModal>>

\* handleConfirmSwitch: close the modal, stopTimer(), then startTrackingTask
stopSettled(first, out, task, cached, aenv, cenv, transport) ==
    Started(first,
            startTrackingTask(out.w, task, cached, aenv, cenv, transport),
            "switch",
            IF out.settled = "resolved" THEN "tasks" ELSE currentView,
            IF out.settled = "rejected" THEN "Failed to stop timer" ELSE errorMessage)

handleConfirmSwitch(xenv, stopTransport, aenv, cenv, transport) ==
    /\ showSwitchModal' = FALSE
    /\ IF pendingTask = NullTask
       THEN /\ UNCHANGED <<storage, timerStore, sessions, now, badge, alarms, currentView,
                           errorMessage, settings, req, track, tasks, pendingTask,
                           fetched, workerVars, asyncVars>>
       ELSE /\ stopSettled(World,
                           sendMessage(World, [type |-> "STOP_TIMER"], NoCreate, xenv,
                                       stopTransport),
                           pendingTask, tasks[pendingTask], aenv, cenv, transport)
            /\ pendingTask' = NullTask

handleCancelSwitch ==
    /\ showSwitchModal' = FALSE
    /\ pendingTask' = NullTask
    /\ UNCHANGED <<storage, timerStore, sessions, now, badge, alarms, currentView, errorMessage,
                   settings, req, track, tasks, fetched, workerVars, asyncVars>>

\* PopupSpec: a configured installation driven from the popup: the task
\* list's handlers (which resume as well), the timer view's pause and stop
\* buttons, the popup being closed and opened, and the clock.
ListCreate == [r : {"create_fail", "ok"}, l1 : {0}, l2 : {0}]

\* what a START and a STOP can meet: each remote outcome over a working
\* transport, or a transport that fails before the worker answers
StartOutcomes ==
    {[cenv |-> c, transport |-> "ok"] : c \in ListCreate}
        \cup {[cenv |-> NoCreate, transport |-> "lastError"]}

StopOutcomes ==
    {[xenv |-> x, transport |-> "ok"] : x \in InstantClose}
        \cup {[xenv |-> NoClose, transport |-> "lastError"]}

\* the popup's own close is only sent for a task cached with an active session
ActiveOutcomes(task) ==
    IF tasks[task].activeSession.id # Null THEN InstantClose ELSE {NoClose}

\* the outcomes that matter to a click on a task's play button: none when it
\* only opens the confirmation
PlayOutcomes(task) ==
    IF /\ ~(timerStore.taskId = task /\ timerStore.isPaused)
       /\ timerStore.taskId # NullTask /\ timerStore.taskId # task
    THEN {[cenv |-> NoCreate, transport |-> "ok"]}
    ELSE StartOutcomes

PlayStep ==
    \E task \in Tasks :
        \E so \in PlayOutcomes(task), aenv \in ActiveOutcomes(task) :
            handlePlayTask(task, aenv, so.cenv, so.transport)

\* with no task pending the confirmation only closes the dialog
ConfirmStep ==
    IF pendingTask = NullTask
    THEN handleConfirmSwitch(NoClose, "ok", NoClose, NoCreate, "ok")
    ELSE \E st \in StopOutcomes, so \in StartOutcomes :
             \E aenv \in ActiveOutcomes(pendingTask) :
                 handleConfirmSwitch(st.xenv, st.transport, aenv, so.cenv, so.transport)

PopupNext ==
    \/ PlayStep
    \/ ConfirmStep
    \/ handleCancelSwitch
    \/ loadTasks
    \/ initializeStores
    \/ PauseStep
    \/ StopStep
    \/ Tick

PopupSpec == TimingInit /\ [][PopupNext]_vars

\* ------------------------------------------------------- bulk session read
\* FetchSpec: getWorkSessions applied to every list of up to MaxIds page ids
\* and every reply to each fetch, a date being absent, null or set.
PageIds == 1..MaxIds
Dates == {NoProperty, DateProperty(Null), DateProperty(Epoch)}
Replies == {NoPage} \cup {Page(start, end) : start \in Dates, end \in Dates}
IdLists == UNION {[1..n -> PageIds] : n \in 0..MaxIds}

FetchInit ==
    /\ TimingStart
    /\ fetched \in {[ids |-> ids, replies |-> replies, result |-> <<>>, read |-> FALSE] :
                       ids \in IdLists, replies \in [PageIds -> Replies]}

bulkRead ==
    /\ ~fetched.read
    /\ fetched' = [fetched EXCEPT !.result = getWorkSessions(fetched.ids, fetched.replies),
                                  !.read = TRUE]
    /\ UNCHANGED <<storage, timerStore, sessions, now, badge, alarms, currentView,
                   errorMessage, settings, req, track, tasks, pendingTask,
                   showSwitchModal, workerVars, asyncVars>>

FetchNext == bulkRead

FetchSpec == FetchInit /\ [][FetchNext]_vars

\* ------------------------------------------- handlers between awaits
\* The listener starts handleMessage() for every message at once, and a
\* handler yields at each await.  An invocation is at one of: "read" (before
\* the two storage reads), "remote" (before its Notion call; the schema and
\* count lookups, which change nothing, go with the POST), "write" (before
\* saveTimerState) and "finish" (before updateBadge, the alarm and the
\* response).
NoPayload == [taskId |-> NullTask, taskTitle |-> "", previousTotal |-> 0]

Invocation(type, payload) ==
    [type |-> type, payload |-> payload, pc |-> "read", cfg |-> [null |-> TRUE],
     state |-> DEFAULT_TIMER_STATE, newState |-> DEFAULT_TIMER_STATE,
     remote |-> 0, writes |-> 0]

Replaced(i, r) == [inflight EXCEPT ![i] = r]
Removed(i) ==
    [j \in 1..(Len(inflight) - 1) |-> IF j < i THEN inflight[j] ELSE inflight[j + 1]]

\* the handler is over after its reads: START throws, PAUSE and RESUME return
Returns(type, cfg, state) ==
    CASE type = "START_TIMER" -> cfg.null
      [] type = "PAUSE_TIMER" ->
             cfg.null \/ ~state.isRunning \/ state.currentSessionId = Null
      [] type = "RESUME_TIMER" -> ~ResumeApplies(cfg, state)
      [] OTHER -> FALSE

\* mutant: no handler waits for Notion before it saves
Calls_Never(type, cfg, state) == FALSE

\* the handler has a Notion call to await before it saves
Calls(type, cfg, state) ==
    IF type = "STOP_TIMER" THEN ~cfg.null /\ StopCloses(state) ELSE TRUE

\* the state the handler saves, from what it read and what Notion returned
NewState(r, value, t) ==
    CASE r.type = "START_TIMER" -> StartState(r.payload, value, t)
      [] r.type = "PAUSE_TIMER" -> PauseNewState(r.state, t)
      [] r.type = "RESUME_TIMER" -> ResumeNewState(r.state, value, t)
      [] OTHER -> StopState(r.state, t)

hasRead(r, cfg, state) ==
    [r EXCEPT !.cfg = cfg, !.state = state,
              !.pc = IF Calls(r.type, cfg, state) THEN "remote" ELSE "write",
              !.newState = IF Calls(r.type, cfg, state) THEN @
                           ELSE NewState(r, Null, now)]

\* what the one-by-one run was given so far, or the stored state when no
\* handler is under way
Baseline ==
    IF inflight = <<>>
    THEN [timer |-> timerState, sessions |-> sessions, clean |-> TRUE]
    ELSE serial

\* once a remote call has failed or the worker was ended, the one-by-one
\* run is no longer followed until the worker is at rest again
Unfollowed == [NoSerial EXCEPT !.clean = FALSE]

runSerially(base, h) ==
    IF base.clean
    THEN [timer |-> getTimerState(h.w), sessions |-> h.w.sessions, clean |-> TRUE]
    ELSE Unfollowed

Serially(base, message) ==
    runSerially(base,
                handleMessage([World EXCEPT
                                  !.storage = Put(storage, STORAGE_KEYS.TIMER_STATE,
                                                  base.timer),
                                  !.sessions = base.sessions],
                              message, NoCreate, NoClose))

\* a message arrives and its handler is started
Arrived(message) ==
    /\ Len(inflight) < MaxInflight
    /\ serial' = Serially(Baseline, message)
    /\ Len(serial'.sessions) <= MaxSessions
    /\ inflight' = Append(inflight, Invocation(message.type, message.payload))
    /\ req' = NoRequest
    /\ UNCHANGED <<storage, timerStore, sessions, now, badge, alarms, currentView, errorMessage,
                   settings, track, listVars, asyncVars>>

Arrive ==
    \/ \E t \in Tasks :
           Arrived([type |-> "START_TIMER",
                    payload |-> [taskId |-> t, taskTitle |-> Title(t),
                                 previousTotal |-> 0]])
    \/ \E type \in {"PAUSE_TIMER", "RESUME_TIMER", "STOP_TIMER"} :
           Arrived([type |-> type, payload |-> NoPayload])

\* await getSettings(); await getTimerState()
Read ==
    \E i \in DOMAIN inflight :
        /\ inflight[i].pc = "read"
        /\ inflight' = IF Returns(inflight[i].type, getSettings(World), timerState)
                       THEN Removed(i)
                       ELSE Replaced(i, hasRead(inflight[i], getSettings(World),
                                                timerState))
        /\ UNCHANGED <<storage, timerStore, sessions, now, badge, alarms, currentView,
                       errorMessage, settings, req, track, listVars, serial, asyncVars>>

remoteCall(r, cenv, xenv) ==
    CASE r.type = "START_TIMER" ->
             createWorkSession(World, r.cfg.value, r.payload.taskId, cenv)
      [] r.type = "RESUME_TIMER" ->
             createWorkSession(World, r.cfg.value, r.state.taskId, cenv)
      [] OTHER -> endWorkSession(World, r.cfg.value, r.state.currentSessionId, xenv)

called(i, h) ==
    /\ Len(h.w.sessions) <= MaxSessions
    /\ sessions' = h.w.sessions
    /\ now' = h.w.now
    /\ IF h.ok
       THEN /\ inflight' = Replaced(i, [inflight[i] EXCEPT
                                           !.pc = "write", !.remote = @ + 1,
                                           !.newState = NewState(inflight[i], h.value,
                                                                 h.w.now)])
            /\ UNCHANGED serial
       ELSE /\ inflight' = Removed(i)
            /\ serial' = Unfollowed
    /\ UNCHANGED <<storage, timerStore, badge, alarms, currentView, errorMessage, settings, req,
                   track, listVars, asyncVars>>

\* await createWorkSession(...) or await endWorkSession(...)
Remote ==
    \E i \in DOMAIN inflight :
        /\ inflight[i].pc = "remote"
        /\ \E cenv \in ListCreate, xenv \in InstantClose :
               called(i, remoteCall(inflight[i], cenv, xenv))

\* await saveTimerState(state)
Write ==
    \E i \in DOMAIN inflight :
        /\ inflight[i].pc = "write"
        /\ storage' = saveTimerState(World, inflight[i].newState).storage
        /\ timerStore' = IF mount.pc = "listening"
                         THEN setupStorageListener(storage, storage', timerStore)
                         ELSE timerStore
        /\ inflight' = Replaced(i, [inflight[i] EXCEPT !.pc = "finish", !.writes = @ + 1])
        /\ UNCHANGED <<sessions, now, badge, alarms, currentView, errorMessage,
                       settings, req, track, listVars, serial, asyncVars>>

finished(w, r) ==
    CASE r.type \in {"START_TIMER", "RESUME_TIMER"} ->
             alarmsCreate(updateBadge(w, r.newState), TIMER_ALARM_NAME)
      [] r.type = "STOP_TIMER" /\ r.cfg.null -> updateBadge(w, r.newState)
      [] OTHER -> alarmsClear(updateBadge(w, r.newState), TIMER_ALARM_NAME)

finish(i, w) ==
    /\ badge' = w.badge
    /\ alarms' = w.alarms
    /\ inflight' = Removed(i)
    /\ UNCHANGED <<storage, timerStore, sessions, now, currentView, errorMessage, settings, req,
                   track, listVars, serial, asyncVars>>

\* updateBadge(state), the tick alarm, and the return
Finish ==
    \E i \in DOMAIN inflight :
        /\ inflight[i].pc = "finish"
        /\ finish(i, finished(World, inflight[i]))

\* the browser ends the service worker with handlers under way
Kill ==
    /\ inflight # <<>>
    /\ inflight' = <<>>
    /\ serial' = Unfollowed
    /\ req' = [NoRequest EXCEPT !.type = "KILL"]
    /\ UNCHANGED <<storage, timerStore, sessions, now, badge, alarms, currentView, errorMessage,
                   settings, track, listVars, asyncVars>>

\* ConcSpec: a configured installation whose worker takes every message as
\* it arrives, the clock standing still.
ConcNext ==
    \/ Arrive
    \/ Read
    \/ Remote
    \/ Write
    \/ Finish
    \/ Kill

ConcSpec == TimingInit /\ [][ConcNext]_vars

\* ------------------------------------------------------------ timer view
\* Timer.svelte between its awaits: a click runs the handler up to its await
\* of the proxy call, and the call settles in a later step, when the worker
\* has handled the message; the finally block runs with it.  Meanwhile the
\* header's buttons can change the view, which destroys the Timer component
\* and, back on the timer view, creates a new one.

\* a request that has not settled; live: the component that sent it is still
\* the mounted one
ViewCall(type) == [type |-> type, live |-> TRUE]

Without(calls, i) ==
    [j \in 1..(Len(calls) - 1) |-> IF j < i THEN calls[j] ELSE calls[j + 1]]

\* the requests in flight once the Timer component has been destroyed
Unmounted(calls) == [i \in DOMAIN calls |-> [calls[i] EXCEPT !.live = FALSE]]

\* if (isProcessing) return; isProcessing = true; ... await the proxy call
clicked(type) ==
    IF isProcessing
    THEN UNCHANGED <<isProcessing, viewCalls>>
    ELSE /\ isProcessing' = TRUE
         /\ viewCalls' = Append(viewCalls, ViewCall(type))

\* a control of the timer view is clicked: the view shows them when a task
\* is in the store, pause while running and resume otherwise
control(type) ==
    /\ currentView = "timer"
    /\ timerStore.taskId # NullTask
    /\ Len(viewCalls) < MaxCalls
    /\ clicked(type)
    /\ UNCHANGED <<storage, timerStore, sessions, now, badge, alarms, currentView,
                   errorMessage, settings, req, track, listVars, workerVars, mount,
                   saving>>

handlePause == timerStore.isRunning /\ control("PAUSE_TIMER")

handleResume == ~timerStore.isRunning /\ control("RESUME_TIMER")

handleStop == control("STOP_TIMER")

\* the proxy call of a request, answered or failed in transport
proxied(type) ==
    CASE type = "PAUSE_TIMER" ->
             \/ \E xenv \in InstantClose : pauseTimer(xenv, "ok")
             \/ pauseTimer(NoClose, "lastError")
      [] type = "RESUME_TIMER" ->
             \/ \E cenv \in InstantCreate : resumeTimer(cenv, "ok")
             \/ resumeTimer(NoCreate, "lastError")
      [] OTHER ->
             \/ \E xenv \in InstantClose : stopTimer(xenv, "ok")
             \/ stopTimer(NoClose, "lastError")

\* a request settles: the proxy function returns and the handler's finally
\* block resets the flag of the component that sent it
settle ==
    \E i \in DOMAIN viewCalls :
        /\ proxied(viewCalls[i].type)
        /\ IF currentView = "timer" /\ currentView' # "timer"
           THEN /\ viewCalls' = Unmounted(Without(viewCalls, i))
                /\ isProcessing' = FALSE
           ELSE /\ viewCalls' = Without(viewCalls, i)
                /\ isProcessing' = IF viewCalls[i].live THEN FALSE ELSE isProcessing
        /\ UNCHANGED <<track, mount, saving>>

\* where the header's buttons lead: back from settings to the timer view
\* when a task is in the store and else to the tasks, back from the timer
\* view to the tasks, and to the settings from the other two
Destinations ==
    CASE currentView = "settings" ->
             {IF timerStore.taskId # NullTask THEN "timer" ELSE "tasks"}
      [] currentView = "timer" -> {"tasks", "settings"}
      [] OTHER -> {"settings"}

\* navigateTo(view); leaving the timer view destroys the Timer component,
\* and the next one starts with isProcessing false
navigateTo ==
    \E view \in Destinations :
        /\ currentView' = view
        /\ isProcessing' = FALSE
        /\ viewCalls' = IF currentView = "timer" THEN Unmounted(viewCalls) ELSE viewCalls
        /\ UNCHANGED <<storage, timerStore, sessions, now, badge, alarms, errorMessage,
                       settings, req, track, listVars, workerVars, mount, saving>>

\* a task is played from the task list while none is tracked
played ==
    /\ currentView = "tasks"
    /\ timerStore.taskId = NullTask
    /\ \E t \in Tasks, cenv \in InstantCreate : startTimer(t, Title(t), 0, cenv, "ok")
    /\ UNCHANGED <<track, asyncVars>>

\* ViewSpec: a configured installation, the popup on its views: tasks are
\* played from the list, the timer view's controls are clicked, requests
\* settle with any outcome, and the header's buttons are used.
ViewNext ==
    \/ played
    \/ handlePause
    \/ handleResume
    \/ handleStop
    \/ settle
    \/ navigateTo

ViewSpec == TimingInit /\ [][ViewNext]_vars

\* ------------------------------------------------------------ popup mount
\* App's onMount between its awaits: the popup page is created with the
\* stores at their initial values, initializeStores awaits its three reads
\* of storage, sets the stores from what it read, and only when it has
\* returned is the storage listener registered.  The worker goes on
\* handling the requests it was sent, whether or not a popup is open.

\* the popup is closed and opened again
popupOpened ==
    /\ mount.pc = "listening"
    /\ mount' = [pc |-> "reading", loaded |-> DEFAULT_TIMER_STATE]
    /\ currentView' = "tasks"
    /\ settings' = DEFAULT_SETTINGS
    /\ timerStore' = DEFAULT_TIMER_STATE
    /\ errorMessage' = ""
    /\ tasks' = NoTasks
    /\ pendingTask' = NullTask
    /\ showSwitchModal' = FALSE
    /\ isProcessing' = FALSE
    /\ viewCalls' = <<>>
    /\ UNCHANGED <<storage, sessions, now, badge, alarms, req, track, fetched,
                   workerVars, saving>>

\* await Promise.all([getSettings(), getTimerState(), getCachedTasks()])
storesRead ==
    /\ mount.pc = "reading"
    /\ mount' = [pc |-> "loaded", loaded |-> popupGetTimerState(World)]
    /\ UNCHANGED <<storage, timerStore, sessions, now, badge, alarms, currentView,
                   errorMessage, settings, req, track, listVars, workerVars,
                   isProcessing, viewCalls, saving>>

\* the rest of initializeStores, and setupStorageListener() after it
storesSet ==
    /\ mount.pc = "loaded"
    /\ mount' = [pc |-> "listening", loaded |-> mount.loaded]
    /\ settings' = popupGetSettings(World)
    /\ timerStore' = mount.loaded
    /\ tasks' = getCachedTasks(World)
    /\ currentView' = ViewOnOpen(mount.loaded)
    /\ UNCHANGED <<storage, sessions, now, badge, alarms, errorMessage, req, track,
                   pendingTask, showSwitchModal, fetched, workerVars, isProcessing,
                   viewCalls, saving>>

\* a message reaches the worker while it handles no other
ArriveAlone == inflight = <<>> /\ Arrive

\* MountSpec: a configured installation whose worker handles one request
\* at a time, between its awaits, while the popup is closed, opened and
\* mounted.
MountNext ==
    \/ ArriveAlone
    \/ Read
    \/ Remote
    \/ Write
    \/ Finish
    \/ popupOpened
    \/ storesRead
    \/ storesSet

MountSpec == TimingInit /\ [][MountNext]_vars

\* ------------------------------------------------- settings being saved
\* updateSettingsStore between its awaits: the call reads the settings
\* store and merges its updates at once, awaits saveSettings, and sets the
\* store to the merged value when the save has returned.  The saves reach
\* chrome.storage.local in the order the calls were made.

\* updates of one field each, any two of them of different fields
FieldUpdates ==
    { [apiKey |-> "secret"],
      [tasksDataSourceId |-> "tasks-db"],
      [workSessionsDataSourceId |-> "sessions-db"] }

\* const current = get(settings); const updated = { ...current, ...updates }
updateCalled ==
    \E u \in FieldUpdates :
        /\ Len(saving.pending) < MaxCalls
        /\ saving' = [pending |-> Append(saving.pending, Merge(settings, u)),
                      asked |-> saving.asked \cup {u}]
        /\ UNCHANGED <<storage, timerStore, sessions, now, badge, alarms, currentView,
                       errorMessage, settings, req, track, listVars, workerVars,
                       isProcessing, viewCalls, mount>>

\* await saveSettings(updated) returns; settings.set(updated)
settingsSaved ==
    /\ saving.pending # <<>>
    /\ storage' = Put(storage, STORAGE_KEYS.SETTINGS, Head(saving.pending))
    /\ settings' = Head(saving.pending)
    /\ saving' = [saving EXCEPT !.pending = Tail(@)]
    /\ UNCHANGED <<timerStore, sessions, now, badge, alarms, currentView, errorMessage,
                   req, track, listVars, workerVars, isProcessing, viewCalls, mount>>

\* SettingsSpec: a fresh installation whose settings view saves its fields
\* one by one, a call being made before or after the earlier one's save
\* has returned.
SettingsNext ==
    \/ updateCalled
    \/ settingsSaved

SettingsSpec == Init /\ [][SettingsNext]_vars

\* ------------------------------------------------------------ properties
TypeOK ==
    /\ now \in Epoch..ScenarioEnd
    /\ Len(sessions) <= MaxSessions
    /\ alarms \subseteq {TIMER_ALARM_NAME}

Transitions == {"START_TIMER", "PAUSE_TIMER", "RESUME_TIMER", "STOP_TIMER"}

IsError(response) == "error" \in DOMAIN response

\* the most recent call was a transition one of whose remote calls failed
RemoteFailed ==
    /\ req.type \in Transitions
    /\ IsError(req.response)
    /\ req.response.error \in {"Notion API error",
                               "Could not find task relation property"}

\* C1: when a remote call of START, PAUSE, RESUME or STOP fails, the request
\* writes TimerState not once and the persisted TimerState is the one the
\* request found.
C1_RemoteFailureLeavesState ==
    RemoteFailed => /\ req.writes = 0
                    /\ timerState = req.pre

C1_Witness ==
    /\ RemoteFailed
    /\ req.type = "STOP_TIMER"
    /\ req.pre.isRunning
    /\ req.remote = 1

\* C2: the remote store never holds two open sessions (start set, no end)
\* of the same task.
C2_NoDoubleOpen ==
    \A i, j \in DOMAIN sessions :
        (i # j /\ sessions[i].end = Null /\ sessions[j].end = Null)
            => sessions[i].task # sessions[j].task

\* C3: currentSessionId and sessionStartTime are present together, both are
\* absent unless the phase is running, and taskId is absent exactly when idle.
C3_FieldsInvariant ==
    LET s == timerState IN
    /\ (s.currentSessionId # Null) <=> (s.sessionStartTime # Null)
    /\ Phase(s) # "running" => (s.currentSessionId = Null /\ s.sessionStartTime = Null)
    /\ (s.taskId = NullTask) <=> (Phase(s) = "idle")

C3_Witness ==
    /\ req.type = "RESUME_TIMER"
    /\ req.writes = 1
    /\ Phase(timerState) = "running"
    /\ timerState.currentSessionId # Null

\* C4 as stated: idle, taskId absent, currentSessionId absent and
\* sessionStartTime absent are all equivalent.
C4_IdleInvariantAsStated ==
    LET s == timerState IN
    /\ (Phase(s) = "idle") <=> (s.taskId = NullTask)
    /\ (s.taskId = NullTask) <=> (s.currentSessionId = Null)
    /\ (s.currentSessionId = Null) <=> (s.sessionStartTime = Null)

\* C4 (amended): idle is equivalent to taskId absent; currentSessionId absent
\* is equivalent to sessionStartTime absent and to the phase not being
\* running (so they are absent while idle, and also while paused).
C4_IdleInvariant ==
    LET s == timerState IN
    /\ (Phase(s) = "idle") <=> (s.taskId = NullTask)
    /\ (s.currentSessionId = Null) <=> (s.sessionStartTime = Null)
    /\ (s.sessionStartTime = Null) <=> (Phase(s) # "running")

C4_Witness ==
    /\ Phase(timerState) = "paused"
    /\ timerState.taskId # NullTask
    /\ timerState.currentSessionId = Null
    /\ timerState.sessionStartTime = Null

\* the prior total plus the lengths of the running intervals of the track:
\* each start or resume mark up to the pause or stop mark that follows it
RECURSIVE Worked(_, _)
Worked(tr, n) ==
    IF n = 0 THEN tr.prior
    ELSE Worked(tr, n - 1)
         + (IF n > 1 /\ tr.ops[n] \in {"pause", "stop"}
                     /\ tr.ops[n - 1] \in {"start", "resume"}
            THEN tr.marks[n] - tr.marks[n - 1] ELSE 0)

ScenarioRuns ==
    { <<"start", "pause", "resume", "pause", "stop">>,
      <<"start", "pause", "resume", "stop">> }

\* C5 as stated: after start, pause, resume, (pause,) stop with every remote
\* call succeeding, accumulatedTime after the stop is the prior total plus
\* the lengths of the running intervals.
C5_TotalAfterStopAsStated ==
    track.ops \in ScenarioRuns
        => timerState.previousTotal = Worked(track, Len(track.ops))

\* C5 (amended): along such a sequence accumulatedTime is, after each pause,
\* the prior total plus the lengths of the running intervals closed by a
\* pause so far; the stop resets TimerState to the idle default, so after
\* the stop accumulatedTime is 0 and the phase idle.
C5_TotalAfterPause ==
    /\ (track.ops # <<>> /\ track.ops[Len(track.ops)] = "pause")
           => /\ Phase(timerState) = "paused"
              /\ timerState.previousTotal = Worked(track, Len(track.ops))
    /\ track.ops \in ScenarioRuns
           => /\ Phase(timerState) = "idle"
              /\ timerState.previousTotal = 0

\* start with prior total 0 at t = 0, pause at 5 s, resume at 6 s, pause at
\* 9 s with accumulatedTime 8 s, then stop
C5_Witness ==
    /\ track = [prior |-> 0,
                ops |-> <<"start", "pause", "resume", "pause", "stop">>,
                marks |-> <<Epoch, Epoch + 5, Epoch + 6, Epoch + 9, Epoch + 9>>]
    /\ req.type = "STOP_TIMER"
    /\ req.pre.previousTotal = 8
    /\ timerState = DEFAULT_TIMER_STATE

\* C6: a PAUSE that succeeds from the running phase leaves the phase paused
\* and accumulatedTime = its previous value + (now - sessionStartTime), the
\* sessionStartTime being the one the preceding start or resume stored.
C6_PauseAccumulates ==
    (req.type = "PAUSE_TIMER" /\ req.pre.isRunning /\ req.writes > 0)
        => /\ Phase(timerState) = "paused"
           /\ timerState.previousTotal
                  = req.pre.previousTotal + (req.at - req.pre.sessionStartTime)
           /\ Len(track.ops) >= 2
           /\ track.ops[Len(track.ops) - 1] \in {"start", "resume"}
           /\ req.pre.sessionStartTime = track.marks[Len(track.ops) - 1]

\* start with prior total 0 at t = 0, pause at 5 s: accumulatedTime 5 s
C6_Witness ==
    /\ req.type = "PAUSE_TIMER"
    /\ track = [prior |-> 0, ops |-> <<"start", "pause">>,
                marks |-> <<Epoch, Epoch + 5>>]
    /\ req.pre.isRunning
    /\ req.pre.previousTotal = 0
    /\ timerState.previousTotal = 5
    /\ timerState.isPaused

\* a call that reached the listener and got a state back
Answered(type) ==
    /\ req.type = type
    /\ req.settled = "resolved"
    /\ ~IsError(req.response)

\* C7: a STOP that finds the phase idle leaves the persisted TimerState as
\* it found it and makes no remote call; every successful STOP leaves the
\* phase idle, so a second STOP changes nothing.
C7_IdempotentStop ==
    Answered("STOP_TIMER")
        => /\ Phase(timerState) = "idle"
           /\ Phase(req.pre) = "idle" => (timerState = req.pre /\ req.remote = 0)

\* a STOP on the state an earlier STOP persisted, settings configured
C7_Witness ==
    /\ Answered("STOP_TIMER")
    /\ Phase(req.pre) = "idle"
    /\ req.writes = 1
    /\ STORAGE_KEYS.SETTINGS \in DOMAIN storage
    /\ Len(sessions) > 0

\* C8: PAUSE outside the running phase and RESUME outside the paused phase
\* answer with the current state and write nothing, call nothing remote and
\* touch neither the badge nor the tick alarm.
C8_UnmetPreconditionNoOp ==
    (\/ req.type = "PAUSE_TIMER" /\ req.settled = "resolved" /\ ~req.pre.isRunning
     \/ req.type = "RESUME_TIMER" /\ req.settled = "resolved" /\ ~req.pre.isPaused)
        => /\ req.response = req.pre
           /\ timerState = req.pre
           /\ req.writes = 0
           /\ req.remote = 0
           /\ req.badgeSets = 0
           /\ req.alarmOps = 0

C8_Witness ==
    /\ req.type = "RESUME_TIMER"
    /\ req.settled = "resolved"
    /\ req.pre.isRunning
    /\ STORAGE_KEYS.SETTINGS \in DOMAIN storage

\* C9: a proxy call whose transition failed rejects: an error descriptor
\* from the listener is never what the call resolves with.
C9_FailureRejects ==
    (req.type \in Transitions /\ IsError(req.response)) => req.settled = "rejected"

\* the stored settings lack a required field
SettingsIncomplete ==
    LET cfg == getSettings(World) IN
    \/ cfg.null
    \/ cfg.value.apiKey = ""
    \/ cfg.value.tasksDataSourceId = ""
    \/ cfg.value.workSessionsDataSourceId = ""

\* C10: a transition requested while the stored settings lack a required
\* field is refused with an error and attempts neither a remote request nor
\* a write of TimerState.
C10_ConfigErrorRefused ==
    [][(req' # req /\ SettingsIncomplete /\ req'.settled = "resolved")
          => /\ IsError(req'.response)
             /\ req'.remote = 0
             /\ req'.writes = 0]_vars

\* the most recent call was a STOP that completed successfully
StopSucceeded ==
    /\ req.type = "STOP_TIMER"
    /\ req.settled = "resolved"
    /\ ~IsError(req.response)

\* C11: a successful STOP leaves the default TimerState; it sends one close
\* request exactly when the state it found referenced an open session, and
\* that session then has its end set; afterwards no session that the
\* machine opened is still open.
C11_StopClosesEverySession ==
    StopSucceeded =>
        /\ timerState = DEFAULT_TIMER_STATE
        /\ req.remote = (IF req.pre.currentSessionId # Null THEN 1 ELSE 0)
        /\ req.pre.isRunning => sessions[req.pre.currentSessionId].end # Null
        /\ \A i \in DOMAIN sessions : sessions[i].end # Null

\* C19: a message of a kind the listener does not know is answered with the
\* generic error descriptor and changes neither TimerState, badge, tick
\* alarm nor the remote store.
C19_UnknownKindRefused ==
    [][(req' # req /\ req'.type \in UnknownKinds /\ req'.settled = "resolved")
          => /\ req'.response = [error |-> "Unknown message type"]
             /\ req'.remote = 0 /\ req'.writes = 0
             /\ UNCHANGED <<storage, sessions, badge, alarms>>]_vars

C19_Witness ==
    /\ req.type = "STATE_UPDATE"
    /\ req.settled = "resolved"
    /\ IsError(req.response)
    /\ req.pre.isRunning
    /\ timerState = req.pre
    /\ TIMER_ALARM_NAME \in alarms

\* C20: in every state between two events, the badge is the one the phase
\* of the stored TimerState calls for: the active glyph and colour when
\* running, the paused glyph and colour when paused, no text when idle.
C20_BadgeFollowsPhase ==
    /\ Phase(timerState) = "running" => badge = [text |-> "play", color |-> "#2ecc71"]
    /\ Phase(timerState) = "paused" => badge = [text |-> "pause", color |-> "#f39c12"]
    /\ Phase(timerState) = "idle" => badge.text = ""

\* a STOP that has just cleared the badge of a running timer
C20_Witness ==
    /\ StopSucceeded
    /\ req.pre.isRunning
    /\ req.badgeSets = 1
    /\ badge.text = ""
    /\ badge.color = "#2ecc71"

\* the most recent call resolved with a TimerState, not an error descriptor
Succeeded(r, type) ==
    /\ r.type = type
    /\ r.settled = "resolved"
    /\ ~IsError(r.response)

\* a step in which the proxy sent START for task t with prior total p
StartSent(t, p) == \E cenv \in InstantCreate : startTimer(t, Title(t), p, cenv, "ok")

\* C16: a successful START(taskId, title, priorTotal) adds exactly one
\* session, open and linked to taskId, to the remote store and persists
\* phase running with that taskId and title, the prior total, the current
\* time as sessionStartTime and the new record's id as currentSessionId.
C16_StartEffect ==
    [][\A t \in Tasks, p \in PriorTotals :
          (Succeeded(req', "START_TIMER") /\ StartSent(t, p))
             => /\ Len(sessions') = Len(sessions) + 1
                /\ SubSeq(sessions', 1, Len(sessions)) = sessions
                /\ sessions'[Len(sessions')].task = t
                /\ sessions'[Len(sessions')].start # Null
                /\ sessions'[Len(sessions')].end = Null
                /\ timerState' = [isRunning |-> TRUE, isPaused |-> FALSE,
                                  taskId |-> t, taskTitle |-> Title(t),
                                  currentSessionId |-> Len(sessions'),
                                  sessionStartTime |-> now',
                                  previousTotal |-> p]]_vars

C16_Witness ==
    /\ Succeeded(req, "START_TIMER")
    /\ req.pre.isPaused
    /\ req.pre.taskId = "T1"
    /\ timerState.taskId = "T2"
    /\ timerState.previousTotal = 2
    /\ timerState.currentSessionId = 2
    /\ sessions[2].task = "T2"

\* a step in which the proxy sent RESUME, over a network with latency
ResumeSent ==
    \E cenv \in [r : {"ok"}, l1 : Latency, l2 : Latency] : resumeTimer(cenv, "ok")

\* C17: a successful RESUME from the paused phase adds exactly one session,
\* open and linked to the stored taskId, sets phase running with the current
\* time as sessionStartTime and the new record's id as currentSessionId, and
\* leaves taskId, taskTitle and the accumulated total as they were.
C17_ResumeEffect ==
    [][(timerState.isPaused /\ Succeeded(req', "RESUME_TIMER") /\ ResumeSent)
          => /\ Len(sessions') = Len(sessions) + 1
             /\ SubSeq(sessions', 1, Len(sessions)) = sessions
             /\ sessions'[Len(sessions')].task = timerState.taskId
             /\ sessions'[Len(sessions')].start # Null
             /\ sessions'[Len(sessions')].end = Null
             /\ timerState' = [timerState EXCEPT !.isRunning = TRUE,
                                                 !.isPaused = FALSE,
                                                 !.currentSessionId = Len(sessions'),
                                                 !.sessionStartTime = now']]_vars

\* a RESUME that took time on the network and kept a non-zero total
C17_Witness ==
    /\ Succeeded(req, "RESUME_TIMER")
    /\ req.pre.isPaused
    /\ req.pre.previousTotal > 0
    /\ timerState.isRunning
    /\ timerState.previousTotal = req.pre.previousTotal
    /\ timerState.currentSessionId = 2
    /\ timerState.sessionStartTime > sessions[2].start

\* a step in which the proxy sent PAUSE
PauseSent == \E xenv \in InstantClose : pauseTimer(xenv, "ok")

\* C18: a successful PAUSE sends exactly one close request, for the session
\* that currentSessionId named before the request, clears currentSessionId
\* and sessionStartTime and leaves taskId and taskTitle as they were.
C18_PauseEffect ==
    [][(timerState.isRunning /\ Succeeded(req', "PAUSE_TIMER") /\ PauseSent)
          => /\ req'.remote = 1
             /\ DOMAIN sessions' = DOMAIN sessions
             /\ \A i \in DOMAIN sessions :
                    IF i = timerState.currentSessionId
                    THEN /\ sessions[i].end = Null
                         /\ sessions'[i] = [sessions[i] EXCEPT !.end = now']
                    ELSE sessions'[i] = sessions[i]
             /\ timerState'.currentSessionId = Null
             /\ timerState'.sessionStartTime = Null
             /\ timerState'.taskId = timerState.taskId
             /\ timerState'.taskTitle = timerState.taskTitle]_vars

\* a PAUSE that closed the referenced session and left another one open
C18_Witness ==
    /\ Succeeded(req, "PAUSE_TIMER")
    /\ req.pre.isRunning
    /\ req.pre.currentSessionId = 2
    /\ sessions[2].end # Null
    /\ sessions[1].end = Null
    /\ timerState.isPaused
    /\ timerState.taskId = req.pre.taskId

\* C13: when the user confirms a switch, START for the new task is sent
\* only once STOP has left the idle state in storage and the session the
\* previous task was running in is closed.
C13_SwitchStartsAfterStop ==
    (req.type = "START_TIMER" /\ "via" \in DOMAIN req /\ req.via = "switch")
        => /\ Phase(req.pre) = "idle"
           /\ req.pre.taskId = NullTask
           /\ req.first.currentSessionId \notin req.open

\* C15: whenever the stored phase is running, currentSessionId names a
\* remote session that is linked to taskId and still open.
C15_RunningSessionOpen ==
    timerState.isRunning =>
        /\ timerState.currentSessionId \in DOMAIN sessions
        /\ sessions[timerState.currentSessionId].task = timerState.taskId
        /\ sessions[timerState.currentSessionId].start # Null
        /\ sessions[timerState.currentSessionId].end = Null

\* the sessions of each task, open and closed, are as many in both stores
SameSessions(a, b) ==
    \A t \in Tasks, open \in BOOLEAN :
        Cardinality({i \in DOMAIN a : a[i].task = t /\ (a[i].end = Null) = open})
            = Cardinality({i \in DOMAIN b : b[i].task = t /\ (b[i].end = Null) = open})

\* the same TimerState, whatever id the session it refers to was given
SameTimer(a, b) ==
    /\ [a EXCEPT !.currentSessionId = Null] = [b EXCEPT !.currentSessionId = Null]
    /\ (a.currentSessionId = Null) = (b.currentSessionId = Null)

\* C12: overlapping requests are handled one at a time in arrival order:
\* once every handler has returned, TimerState and the remote sessions are
\* those that running the requests one after the other, as they arrived,
\* produces.
C12_SerialEquivalent ==
    (inflight = <<>> /\ serial.clean)
        => /\ SameTimer(timerState, serial.timer)
           /\ SameSessions(sessions, serial.sessions)

\* a TimerState whose fields belong to one phase
Complete(s) ==
    /\ ~(s.isRunning /\ s.isPaused)
    /\ s.isRunning = (s.currentSessionId # Null)
    /\ s.isRunning = (s.sessionStartTime # Null)
    /\ (s.taskId = NullTask) = (~s.isRunning /\ ~s.isPaused)

\* the remote calls a transition makes, by what it found
RemoteDue(r) ==
    IF r.type = "STOP_TIMER" /\ ~r.state.isRunning THEN 0 ELSE 1

\* C14: the stored TimerState only changes in the one write of a transition
\* whose remote calls have all succeeded, and it changes to that
\* transition's complete new state; ending the worker at any other point
\* leaves the state that was stored before.
C14_WriteAfterRemote ==
    [][timerState' # timerState
          => \E i \in DOMAIN inflight :
                 /\ inflight[i].pc = "write"
                 /\ inflight[i].writes = 0
                 /\ inflight[i].remote = RemoteDue(inflight[i])
                 /\ timerState' = inflight[i].newState
                 /\ Complete(timerState')]_vars

\* the worker was ended after a START had created its session and before
\* it saved: the idle state is still stored
C14_Witness ==
    /\ req.type = "KILL"
    /\ inflight = <<>>
    /\ timerState = DEFAULT_TIMER_STATE
    /\ Len(sessions) = 1
    /\ sessions[1].end = Null

\* C21: GET_STATE answers with the persisted TimerState, and neither
\* GET_STATE nor the tick alarm's listener writes TimerState or makes a
\* remote call, whatever the phase.
C21_ReadOnly ==
    [][/\ getTimerStateFromWorker("ok")
            => /\ req'.response = [timerState |-> timerState]
               /\ req'.writes = 0
               /\ req'.remote = 0
               /\ UNCHANGED <<storage, sessions>>
       /\ onAlarm
            => /\ alarmFired(World, timerState).writes = 0
               /\ alarmFired(World, timerState).remote = 0
               /\ UNCHANGED <<storage, sessions>>]_vars

\* GET_STATE answered while a task is paused
C21_Witness ==
    /\ req.type = "GET_STATE"
    /\ req.settled = "resolved"
    /\ req.pre.isPaused
    /\ req.response = [timerState |-> req.pre]
    /\ timerState = req.pre

\* the timer-state key of a storage area: absent, or holding one value
StoredTimer(area) ==
    IF STORAGE_KEYS.TIMER_STATE \in DOMAIN area
    THEN <<area[STORAGE_KEYS.TIMER_STATE]>> ELSE <<>>

\* C22: the timer-state key of storage only changes in a step in which the
\* background answered a request of the popup and its handler saved it; what the popup does by itself
\* (opening, its storage listener, loading and caching the tasks, the
\* confirmation dialog) never writes that key.
C22_SingleWriter ==
    [][StoredTimer(storage') # StoredTimer(storage)
          => (req' # req /\ req'.responses > 0 /\ req'.writes > 0)]_vars

\* the task list was loaded and cached while a task was running: the cache
\* is in storage next to the state START saved
C22_Witness ==
    /\ STORAGE_KEYS.CACHED_DATA \in DOMAIN storage
    /\ timerState.isRunning
    /\ tasks[timerState.taskId].activeSession.id = timerState.currentSessionId
    /\ timerStore = timerState
    /\ currentView = "timer"
    /\ req.type = "START_TIMER"

\* C23: opening the popup again, and the worker starting again or being
\* installed, write nothing to TimerState; after the popup opened, its
\* timerState store is the persisted state and the view is 'timer' exactly
\* when a task is tracked (taskId set, phase running or paused).
C23_ReopenKeepsTimer ==
    [][/\ (req' = req /\ (initializeStores \/ onStartup \/ onInstalled))
            => StoredTimer(storage') = StoredTimer(storage)
       /\ (req' = req /\ initializeStores)
            => /\ timerStore' = timerState'
               /\ (currentView' = "timer")
                      = (/\ timerState'.taskId # NullTask
                         /\ Phase(timerState') \in {"running", "paused"})]_vars

\* the popup was opened again after a PAUSE it could not send, the task
\* being paused: the error is gone and the timer view is back
C23_Witness ==
    /\ req.type = "PAUSE_TIMER"
    /\ req.settled = "rejected"
    /\ errorMessage = ""
    /\ timerState.isPaused
    /\ timerStore = timerState
    /\ currentView = "timer"

\* C24: a request sent through the proxy is one round trip: the worker
\* answers it exactly once, whether the transition succeeded or failed (and
\* not at all when the message did not reach it), and the transition sends
\* at most one create and at most one close request.
C24_SingleRoundTrip ==
    req.type \in Transitions
        => /\ req.settled = "resolved" => req.responses = 1
           /\ req.settled = "rejected" => (req.responses = 0 /\ req.remote = 0)
           /\ req.posts <= 1
           /\ req.patches <= 1
           /\ req.posts + req.patches <= 1

\* a START whose create request failed: one request, one answer, no retry
C24_Witness ==
    /\ req.type = "START_TIMER"
    /\ req.settled = "resolved"
    /\ IsError(req.response)
    /\ req.posts = 1
    /\ req.responses = 1
    /\ Len(sessions) = 0

\* the positions of the id list whose fetch succeeded, in order
Fetched(ids, replies) ==
    SelectSeq([n \in 1..Len(ids) |-> n], LAMBDA n : replies[ids[n]].ok)

\* C25: getWorkSessions returns one entry for each id of the list whose
\* fetch succeeded, in the list's order, and none for an id whose fetch
\* failed; the entry's start (end) is null when the page lacks the start
\* (end) property; and the entry is active exactly when its start is not
\* null and its end is null.
C25_BulkRead ==
    fetched.read
        => /\ Len(fetched.result) = Len(Fetched(fetched.ids, fetched.replies))
           /\ \A k \in 1..Len(fetched.result) :
                  /\ fetched.result[k].id
                         = fetched.ids[Fetched(fetched.ids, fetched.replies)[k]]
                  /\ ~fetched.replies[fetched.result[k].id].start.present
                         => fetched.result[k].startDate = Null
                  /\ ~fetched.replies[fetched.result[k].id].end.present
                         => fetched.result[k].endDate = Null
                  /\ fetched.replies[fetched.result[k].id].start.present
                         => fetched.result[k].startDate
                                = fetched.replies[fetched.result[k].id].start.date
                  /\ fetched.replies[fetched.result[k].id].end.present
                         => fetched.result[k].endDate
                                = fetched.replies[fetched.result[k].id].end.date
                  /\ fetched.result[k].isActive
                         = (/\ fetched.result[k].startDate # Null
                            /\ fetched.result[k].endDate = Null)

\* two ids read: the first fetch fails, the second page has an end and no
\* start property
C25_Witness ==
    /\ fetched.read
    /\ fetched.ids = <<1, 2>>
    /\ fetched.replies[1] = NoPage
    /\ fetched.replies[2] = Page(NoProperty, DateProperty(Epoch))
    /\ fetched.result = <<[null |-> FALSE, id |-> 2, startDate |-> Null,
                           endDate |-> Epoch, isActive |-> FALSE]>>

\* C26: every read of storage gives a value with all the fields of its
\* default, the default itself when the key is missing, and never null: the
\* popup's reads of the settings, the timer state and the cached tasks, and
\* the worker's reads of the timer state and of the settings.
C26_ReadsDefaulted ==
    /\ DOMAIN popupGetSettings(World) = DOMAIN DEFAULT_SETTINGS
    /\ DOMAIN popupGetTimerState(World) = DOMAIN DEFAULT_TIMER_STATE
    /\ DOMAIN getCachedData(World) = DOMAIN DEFAULT_CACHED_DATA
    /\ DOMAIN getCachedTasks(World) = Tasks
    /\ DOMAIN getTimerState(World) = DOMAIN DEFAULT_TIMER_STATE
    /\ ~getSettings(World).null
    /\ DOMAIN getSettings(World).value = DOMAIN DEFAULT_SETTINGS

\* C27: when the task's cached data shows an active remote session, START
\* is sent only once that session is closed, with the prior total
\* completed time + (now - the session's start time); so the new session is
\* not opened while that one is open.
C27_FoldActiveSession ==
    (req.type = "START_TIMER" /\ "via" \in DOMAIN req /\ req.cached.activeSession.id # Null)
        => /\ req.cached.activeSession.id \notin req.open
           /\ req.total = req.cached.totalTrackedTime
                              + (req.sentAt - req.cached.activeSession.startTime)

\* C28: while a task stays tracked (from a START up to the next STOP or
\* START) accumulatedTime never decreases; it changes only in a successful
\* PAUSE from running, by the length now - sessionStartTime of the interval
\* that PAUSE closes; so it is fixed while running and across RESUME.
C28_TotalGrowsByIntervals ==
    [][(/\ timerState.taskId # NullTask
        /\ timerState'.taskId # NullTask
        /\ (req' = req \/ req'.type # "START_TIMER"))
          => /\ timerState'.previousTotal >= timerState.previousTotal
             /\ timerState'.previousTotal # timerState.previousTotal
                    => /\ req' # req
                       /\ Succeeded(req', "PAUSE_TIMER")
                       /\ timerState.isRunning
                       /\ timerState'.isPaused
                       /\ timerState'.previousTotal - timerState.previousTotal
                              = now' - timerState.sessionStartTime
             /\ (timerState'.isRunning \/ Succeeded(req', "RESUME_TIMER"))
                    => timerState'.previousTotal = timerState.previousTotal]_vars

\* the second PAUSE of a task: the total grew at both pauses and was kept
\* by the RESUME between them
C28_Witness ==
    /\ track.ops = <<"start", "pause", "resume", "pause">>
    /\ req.type = "PAUSE_TIMER"
    /\ req.pre.previousTotal > track.prior
    /\ timerState.previousTotal > req.pre.previousTotal
    /\ timerState.previousTotal = Worked(track, 4)

\* the most recent call was a PAUSE that closed a running interval
PauseClosed ==
    /\ Succeeded(req, "PAUSE_TIMER")
    /\ req.pre.isRunning
    /\ req.writes > 0

\* what that PAUSE added to accumulatedTime, and the duration on the record
\* of the session it closed
Added == timerState.previousTotal - req.pre.previousTotal
Recorded ==
    sessions[req.pre.currentSessionId].end - sessions[req.pre.currentSessionId].start

\* the sessions created since the last START (one by it, one by each
\* RESUME), and the duration recorded on those that are closed
Opens(tr) == Cardinality({n \in DOMAIN tr.ops : tr.ops[n] \in {"start", "resume"}})
Pauses(tr) == Cardinality({n \in DOMAIN tr.ops : tr.ops[n] = "pause"})

RECURSIVE RecordedSince(_, _)
RecordedSince(ss, k) ==
    IF k = 0 THEN 0
    ELSE RecordedSince(ss, k - 1)
         + (IF ss[Len(ss) - k + 1].end # Null
            THEN ss[Len(ss) - k + 1].end - ss[Len(ss) - k + 1].start ELSE 0)

\* a task started with prior total 0 is tracked
TrackedFromZero ==
    /\ timerState.taskId # NullTask
    /\ track.ops # <<>>
    /\ track.prior = 0

\* C29 as stated: what a PAUSE adds to accumulatedTime is the duration
\* end - start on the record of the session it closed, whatever the
\* latency; so, after a start with prior total 0, accumulatedTime is the
\* total duration of the closed sessions created since that start.
C29_AddedIsRecordedAsStated ==
    /\ PauseClosed => Added = Recorded
    /\ TrackedFromZero
           => timerState.previousTotal = RecordedSince(sessions, Opens(track))

\* C29 (amended): what a PAUSE adds runs from the return of the create to
\* the return of the close, the record's duration from the sending of the
\* create to the sending of the close: the two differ by the close's
\* latency less the create's, so by one call's latency at most, and are
\* equal when the two latencies are; after a start with prior total 0,
\* accumulatedTime is within one call's latency per pause of the total
\* duration of the closed sessions created since that start.
C29_AddedNearRecorded ==
    /\ PauseClosed
           => /\ req.at - sessions[req.pre.currentSessionId].end \in 0..MaxLatency
              /\ req.pre.sessionStartTime - sessions[req.pre.currentSessionId].start
                     \in 0..MaxLatency
              /\ Added - Recorded
                     = (req.at - sessions[req.pre.currentSessionId].end)
                       - (req.pre.sessionStartTime
                              - sessions[req.pre.currentSessionId].start)
    /\ TrackedFromZero
           => /\ timerState.previousTotal - RecordedSince(sessions, Opens(track))
                     <= MaxLatency * Pauses(track)
              /\ RecordedSince(sessions, Opens(track)) - timerState.previousTotal
                     <= MaxLatency * Pauses(track)

\* a PAUSE whose close took a tick on the network, after a create that took
\* none: accumulatedTime got one tick more than the record's duration
C29_Witness ==
    /\ PauseClosed
    /\ req.pre.previousTotal = 0
    /\ req.pre.sessionStartTime = sessions[req.pre.currentSessionId].start
    /\ req.at = sessions[req.pre.currentSessionId].end + 1
    /\ Recorded = 2
    /\ Added = 3

\* C30: the total on display is accumulatedTime plus, while running and
\* only then, now - sessionStartTime; a successful PAUSE persists as
\* accumulatedTime the total that is on display at that instant, so the
\* display does not jump; and the display never decreases across a PAUSE or
\* a RESUME.
C30_DisplayContinuous ==
    [][/\ updateDisplay(timerStore, now)
              = timerState.previousTotal
                + (IF Phase(timerState) = "running"
                   THEN now - timerState.sessionStartTime ELSE 0)
       /\ (req' # req /\ Succeeded(req', "PAUSE_TIMER") /\ timerStore.isRunning)
            => /\ timerState'.previousTotal = updateDisplay(timerStore, now')
               /\ updateDisplay(timerStore', now') = updateDisplay(timerStore, now')
       /\ (req' # req /\ req'.type \in {"PAUSE_TIMER", "RESUME_TIMER"})
            => updateDisplay(timerStore', now') >= updateDisplay(timerStore, now)]_vars

\* a PAUSE of a task that had a total already, after an interval that took
\* time: the display shows what was persisted
C30_Witness ==
    /\ PauseClosed
    /\ req.pre.previousTotal > 0
    /\ req.at > req.pre.sessionStartTime
    /\ timerStore = timerState
    /\ updateDisplay(timerStore, now)
           = req.pre.previousTotal + (req.at - req.pre.sessionStartTime)

\* the open remote sessions that the TimerState does not refer to
Unreferenced(state, ss) ==
    {n \in DOMAIN ss : ss[n].end = Null /\ n # state.currentSessionId}

\* C31: whatever the interleaving of the requests that were delivered
\* together, once every handler has returned no open session is left that
\* TimerState does not refer to (where running the same requests one by one
\* leaves none, and no remote call failed).
C31_NoUnreferencedSession ==
    (/\ inflight = <<>>
     /\ serial.clean
     /\ Unreferenced(serial.timer, serial.sessions) = {})
        => Unreferenced(timerState, sessions) = {}

\* a PAUSE or RESUME under way that read a TimerState with a task in it
Stale(r) ==
    /\ r.type \in {"PAUSE_TIMER", "RESUME_TIMER"}
    /\ r.pc # "read"
    /\ r.state.taskId # NullTask

\* STOP has written the idle default and returned, no START has arrived
\* since, and a PAUSE or RESUME that read the stopped task is still under way
StoppedUnderway ==
    /\ timerState = DEFAULT_TIMER_STATE
    /\ \A i \in DOMAIN inflight : inflight[i].type \notin {"START_TIMER", "STOP_TIMER"}
    /\ \E i \in DOMAIN inflight : Stale(inflight[i])

\* C32: after a STOP has completed the stored TimerState stays the idle
\* default until a START arrives: a PAUSE or RESUME that was under way when
\* the STOP was handled does not write the stopped task back.
C32_StoppedStaysIdle ==
    [][StoppedUnderway => timerState' = DEFAULT_TIMER_STATE]_vars

\* C35: a START or STOP that the worker answers with an error descriptor
\* leaves the view where it was and sets errorMessage.
C35_ErrorKeepsView ==
    [][(/\ req' # req
        /\ req'.type \in {"START_TIMER", "STOP_TIMER"}
        /\ IsError(req'.response))
          => /\ currentView' = currentView
             /\ errorMessage' # ""]_vars

\* C36: the tick alarm exists exactly while the stored phase is running.
C36_AlarmIffRunning ==
    (TIMER_ALARM_NAME \in alarms) <=> (Phase(timerState) = "running")

\* C38: the stored TimerState never has isRunning and isPaused both true.
C38_FlagsExclusive ==
    ~(timerState.isRunning /\ timerState.isPaused)

\* a RESUME has turned a paused state into a running one
C38_Witness ==
    /\ Succeeded(req, "RESUME_TIMER")
    /\ req.writes = 1
    /\ req.pre.isPaused
    /\ timerState.isRunning
    /\ ~timerState.isPaused

\* C33: at most one pause/resume/stop request of the timer view is in
\* flight at a time, and isProcessing is true only while a request of the
\* mounted component is in flight.
C33_OneCallInFlight ==
    /\ Len(viewCalls) <= 1
    /\ isProcessing <=> \E i \in DOMAIN viewCalls : viewCalls[i].live

\* C34: once the popup has mounted and the worker has nothing left to
\* write, the timerState store is the stored TimerState.
C34_StoreConverges ==
    (mount.pc = "listening" /\ inflight = <<>>)
        => timerStore = popupGetTimerState(World)

\* C37: once every updateSettingsStore call has completed, each update that
\* was asked for is in the settings store, and the store is what is stored.
C37_UpdatesKept ==
    saving.pending = <<>>
        => /\ \A u \in saving.asked : \A k \in DOMAIN u : settings[k] = u[k]
           /\ settings = popupGetSettings(World)

====
